---- MODULE Spec2Model ----
(***************************************************************************)
(* Reconciliation engine of VitalMatrix: the Oura sync pass                *)
(* (OuraSyncService.sync_user_data and the per-stream reconcilers it       *)
(* calls), its access token and its fetch, the tables it writes, the       *)
(* grouped sleep read model (get_grouped_sleep_data), the scheduled jobs   *)
(* that run the pass, the Polar pass (sync_user_exercises) with the daily   *)
(* and weekly training summaries derived from it (TrainingMetricsService), *)
(* the sleep debt estimate (SleepMetricsService.calculate_sleep_debt) and  *)
(* the daily schedule of the four 11 o'clock jobs.                         *)
(*                                                                         *)
(* Python's None is the integer None; a JSON key that is not in the        *)
(* payload at all is Missing; a day string that date.fromisoformat rejects *)
(* is BadDay.  Calendar days are integers, instants are minutes since      *)
(* 00:00 UTC of day 0.                                                     *)
(***************************************************************************)
EXTENDS Integers, Sequences, FiniteSets, TLC

VARIABLES
    today,                  \* today_hk()
    oura_sleep,             \* table oura_sleep: sequence of rows
    oura_daily_sleep,       \* table oura_daily_sleep
    oura_daily_readiness,   \* table oura_daily_readiness
    prev,                   \* the three tables as they were before the last pass
    last,                   \* the last pass: its arguments, vendor data and outcome
    grouped,                \* the last answer of GET /sleep/grouped, <<>> when none
    batch,                  \* the passes of the last run of the 11:30 job, one per user
    inflight,               \* the passes that have reconciled and not yet committed
    polar_exercises,        \* table polar_exercises
    daily_training_summary, \* table daily_training_summary
    weekly_training_summary, \* table weekly_training_summary
    plast,                  \* the last Polar pass or metrics computation and its outcome
    debt,                   \* the last answer of calculate_sleep_debt and what it was asked
    sched                   \* the scheduled jobs of the day: the clock and each job's progress

vars == <<today, oura_sleep, oura_daily_sleep, oura_daily_readiness, prev, last, grouped,
          batch, inflight, polar_exercises, daily_training_summary, weekly_training_summary,
          plast, debt, sched>>

\* the Oura tables and the records of the operations on them
oura_vars == <<oura_sleep, oura_daily_sleep, oura_daily_readiness, prev, last, grouped, batch,
               inflight>>

\* the Polar tables and the record of the last operation on them
polar_vars == <<polar_exercises, daily_training_summary, weekly_training_summary, plast>>

\* ------------------------------------------------------------------ values

None    == -1000
Missing == -1001
BadDay  == -1002
NoId    == ""

Users == {"u1", "u2"}

\* Python truthiness of an Optional[int]
Truthy(x) == x # None /\ x # Missing /\ x # 0

\* dict.get(key): a key that is not there reads as None
Get(x) == IF x = Missing THEN None ELSE x

\* dict.get(key, 0): a key that is not there reads as 0, a null stays None
GetOr0(x) == IF x = Missing THEN 0 ELSE x

Abs(x) == IF x < 0 THEN -x ELSE x

\* ------------------------------------------------------------------ bounds

\* most vendor records in one response, the streams together
MaxRecs == 2

\* ------------------------------------------------------------------ time

MinutesPerDay == 1440

\* UTC offset of Asia/Hong_Kong, minutes
HK_OFFSET == 480

\* a change of duration of 5 minutes (in seconds) is significant
SIGNIFICANT_DURATION_SEC == 300

\* a change of the daily score of 3 points is significant
SIGNIFICANT_SCORE_POINTS == 3

\* datetime.fromisoformat(s.replace("Z", "+00:00")): the vendor string is a wall
\* clock (minutes since 00:00 of day 0 on that clock) with a UTC offset; the
\* instant is the wall clock minus the offset.  ts = <<clock, offset>>.
ParseInstant(ts) == ts[1] - ts[2]

\* bedtime_end.astimezone(hk_tz).date()
HKDate(instant) == (instant + HK_OFFSET) \div MinutesPerDay

\* "if day": the vendor's day label is there (a non-empty string)
HasDay(day) == day # None /\ day # Missing

\* date.fromisoformat(day) raises ValueError on a malformed string
DayRaises(day) == day = BadDay

\* item_date = date.fromisoformat(day) if day else None
ItemDate(day) == IF HasDay(day) THEN day ELSE None

\* ------------------------------------------------------------------ session

\* (mutant) the table has no unique constraint
NoUniqueCheck(tbl, pending) == FALSE

\* select(T).where(T.oura_id == id): the positions of the matching rows.  The
\* session does not autoflush, so rows added in this pass are not among them.
Matching(tbl, id) == {k \in 1..Len(tbl) : tbl[k].oura_id = id}

\* the unique constraint on oura_id, checked when the pass flushes at commit:
\* an added row whose oura_id is already stored, or added twice, is refused
UniqueViolation(tbl, pending) ==
    \/ \E i \in 1..Len(pending) : Matching(tbl, pending[i].oura_id) # {}
    \/ \E i, j \in 1..Len(pending) : i < j /\ pending[i].oura_id = pending[j].oura_id

\* (mutant) the window opens one day late: ">" for ">="
ShouldForceLate(item_date, c) ==
    \/ c.force
    \/ (c.force_today /\ item_date = c.today)
    \/ (c.force_recent_date # None /\ item_date # None /\ item_date > c.force_recent_date)

\* should_force of the per-day streams
ShouldForce(item_date, c) ==
    \/ c.force
    \/ (c.force_today /\ item_date = c.today)
    \/ (c.force_recent_date # None /\ item_date # None /\ item_date >= c.force_recent_date)

\* force_recent_date = today - (force_recent_days - 1) if force_recent_days > 0 else None
ForceRecentDate(t, force_recent_days) ==
    IF force_recent_days > 0 THEN t - (force_recent_days - 1) ELSE None

\* ------------------------------------------------------------------ sleep segments

\* summary_map[day] = item for every item with a day; the last one wins
SummaryFor(sleep_data, day) ==
    LET ks == {k \in 1..Len(sleep_data) : HasDay(sleep_data[k].day) /\ sleep_data[k].day = day}
    IN  IF ks = {} THEN [id |-> NoId, day |-> None, score |-> Missing, contributors |-> Missing]
        ELSE sleep_data[CHOOSE k \in ks : \A j \in ks : j <= k]

\* summary = summary_map.get(day, {}) if sleep_type == "long_sleep" else {}
SummaryOf(sleep_data, detail) ==
    IF detail.type = "long_sleep" THEN SummaryFor(sleep_data, detail.day)
    ELSE [id |-> NoId, day |-> None, score |-> Missing, contributors |-> Missing]

\* (mutant) the day of the segment is the vendor's label
SleepDayFromLabel(detail, t) ==
    IF HasDay(detail.day) THEN detail.day ELSE t

\* sleep_day: the Hong Kong date of bedtime_end, else the vendor's day, else today
SleepDay(detail, t) ==
    IF Len(detail.bedtime_end) > 0 THEN HKDate(ParseInstant(detail.bedtime_end))
    ELSE IF HasDay(detail.day) THEN detail.day ELSE t

\* the stored instant of bedtime_end
BedtimeEnd(detail) ==
    IF Len(detail.bedtime_end) > 0 THEN ParseInstant(detail.bedtime_end) ELSE None

\* duration_diff >= 300 between the vendor's and the stored duration
DurationChanged(detail, existing) ==
    LET new_duration == Get(detail.total_sleep_duration)
    IN  /\ Truthy(new_duration)
        /\ Truthy(existing.total_sleep_duration)
        /\ Abs(new_duration - existing.total_sleep_duration) >= SIGNIFICANT_DURATION_SEC

\* the score of a primary segment or the delta of a nap differs from the stored one
ScoreChanged(detail, summary, existing) ==
    IF detail.type = "long_sleep"
    THEN /\ Truthy(Get(summary.score))
         /\ Truthy(existing.sleep_score)
         /\ Get(summary.score) # existing.sleep_score
    ELSE /\ Get(detail.sleep_score_delta) # None
         /\ existing.sleep_score_delta # None
         /\ Get(detail.sleep_score_delta) # existing.sleep_score_delta

\* item_has_change of an existing row in a pass without force
ItemHasChange(detail, summary, existing) ==
    DurationChanged(detail, existing) \/ ScoreChanged(detail, summary, existing)

\* (mutant) every existing row needs an update
NeedsUpdateAlways(detail, summary, existing, c) == TRUE

\* needs_update of an existing row in a pass without force
NeedsUpdate(detail, summary, existing, c) ==
    IF existing.total_sleep_duration = None THEN TRUE
    ELSE \/ (c.force_today /\ ItemDate(detail.day) = c.today)
         \/ (c.force_recent_date # None /\ ItemDate(detail.day) # None
                /\ ItemDate(detail.day) >= c.force_recent_date)
         \/ ItemHasChange(detail, summary, existing)

\* sleep_score of the row: Summary.score for a primary segment, else
\* Detail.readiness.score, else what it was
SleepScore(detail, summary, old) ==
    IF detail.type = "long_sleep" /\ Truthy(Get(summary.score)) THEN summary.score
    ELSE IF detail.readiness # None THEN detail.readiness
    ELSE old

\* the existing row after the update branch
UpdatedSleepRow(existing, detail, summary, t) ==
    [existing EXCEPT
        !.day = SleepDay(detail, t),
        !.bedtime_end = BedtimeEnd(detail),
        !.total_sleep_duration = Get(detail.total_sleep_duration),
        !.sleep_score = SleepScore(detail, summary, existing.sleep_score),
        !.contributor_total_sleep = Get(summary.contributors),
        !.sleep_type = detail.type,
        !.readiness_score_embedded =
            IF detail.readiness # None THEN detail.readiness ELSE existing.readiness_score_embedded,
        !.sleep_score_delta = Get(detail.sleep_score_delta)]

\* OuraSleep(...) of a new segment
NewSleepRow(user_id, detail, summary, t) ==
    [user_id |-> user_id,
     oura_id |-> detail.id,
     day |-> SleepDay(detail, t),
     bedtime_end |-> BedtimeEnd(detail),
     total_sleep_duration |-> Get(detail.total_sleep_duration),
     sleep_score |-> SleepScore(detail, summary, None),
     contributor_total_sleep |-> Get(summary.contributors),
     sleep_type |-> detail.type,
     readiness_score_embedded |-> detail.readiness,
     sleep_score_delta |-> Get(detail.sleep_score_delta)]

\* (mutant) only a segment of more than 5 minutes counts
NewSegmentSignificantOver(detail) ==
    GetOr0(detail.total_sleep_duration) > SIGNIFICANT_DURATION_SEC

\* a new segment of at least 5 minutes is a significant change
NewSegmentSignificant(detail) ==
    GetOr0(detail.total_sleep_duration) >= SIGNIFICANT_DURATION_SEC

\* the state of a reconciler's loop: the session's view of the table (tbl), the
\* rows added and not yet flushed (pending), new_count, has_significant_change,
\* whether an exception was raised (err), and the oura_ids whose stored row the
\* update branch wrote (written)
LoopStart(tbl) ==
    [tbl |-> tbl, pending |-> <<>>, new_count |-> 0, sig |-> FALSE, err |-> FALSE, written |-> {}]

\* one iteration of the loop of _sync_sleep_data
SleepStep(st, detail, sleep_data, c) ==
    IF st.err \/ detail.id = NoId THEN st
    ELSE
    LET ks       == Matching(st.tbl, detail.id)
        summary  == SummaryOf(sleep_data, detail)
    IN  IF Cardinality(ks) > 1 \/ DayRaises(detail.day) THEN [st EXCEPT !.err = TRUE]
        ELSE IF ks # {}
        THEN LET k        == CHOOSE x \in ks : TRUE
                 existing == st.tbl[k]
                 needs    == ~c.force /\ NeedsUpdate(detail, summary, existing, c)
                 change   == ~c.force /\ existing.total_sleep_duration # None
                                /\ ItemHasChange(detail, summary, existing)
             IN  IF ~c.force /\ ~needs THEN st
                 ELSE [st EXCEPT
                        !.tbl[k] = UpdatedSleepRow(existing, detail, summary, c.today),
                        !.written = @ \cup {detail.id},
                        !.new_count = IF needs THEN @ + 1 ELSE @,
                        !.sig = @ \/ (needs /\ change)]
        ELSE IF detail.total_sleep_duration = None THEN [st EXCEPT !.err = TRUE]
        ELSE [st EXCEPT
                !.pending = Append(@, NewSleepRow(c.user_id, detail, summary, c.today)),
                !.new_count = @ + 1,
                !.sig = @ \/ NewSegmentSignificant(detail)]

RECURSIVE SleepLoop(_, _, _, _, _)
SleepLoop(st, sleep_details, i, sleep_data, c) ==
    IF i > Len(sleep_details) THEN st
    ELSE SleepLoop(SleepStep(st, sleep_details[i], sleep_data, c), sleep_details, i + 1, sleep_data, c)

\* _sync_sleep_data
SyncSleepData(tbl, sleep_data, sleep_details, c) ==
    SleepLoop(LoopStart(tbl), sleep_details, 1, sleep_data, c)

\* ------------------------------------------------------------------ daily sleep score

\* (mutant) any move of the daily score counts
DailyScoreChangedAny(old_score, new_score) ==
    /\ old_score # None
    /\ new_score # None
    /\ new_score # old_score

\* the daily score moved by at least 3 points
DailyScoreChanged(old_score, new_score) ==
    /\ old_score # None
    /\ new_score # None
    /\ Abs(new_score - old_score) >= SIGNIFICANT_SCORE_POINTS

\* OuraDailySleep(...) of a new daily score
NewDailySleepRow(user_id, item, t) ==
    [user_id |-> user_id,
     oura_id |-> item.id,
     day |-> IF HasDay(item.day) THEN item.day ELSE t,
     score |-> Get(item.score),
     contributor_total_sleep |-> Get(item.contributors)]

\* the existing daily score after the update branch
UpdatedDailySleepRow(existing, item) ==
    [existing EXCEPT
        !.day = IF HasDay(item.day) THEN item.day ELSE existing.day,
        !.score = Get(item.score),
        !.contributor_total_sleep = Get(item.contributors)]

\* (mutant) the policy gates the insertion too: "if not should_force: continue"
DailySleepStepGated(st, item, c) ==
    IF st.err \/ item.id = NoId \/ ~ShouldForce(ItemDate(item.day), c) THEN st
    ELSE
    LET ks == Matching(st.tbl, item.id)
    IN  IF ks # {}
        THEN [st EXCEPT
                !.tbl[CHOOSE x \in ks : TRUE] = UpdatedDailySleepRow(@, item),
                !.written = @ \cup {item.id},
                !.new_count = @ + 1]
        ELSE [st EXCEPT
                !.pending = Append(@, NewDailySleepRow(c.user_id, item, c.today)),
                !.new_count = @ + 1,
                !.sig = TRUE]

\* one iteration of the loop of _sync_daily_sleep_data
DailySleepStep(st, item, c) ==
    IF st.err \/ item.id = NoId THEN st
    ELSE
    LET ks == Matching(st.tbl, item.id)
    IN  IF Cardinality(ks) > 1 \/ DayRaises(item.day) THEN [st EXCEPT !.err = TRUE]
        ELSE IF ks # {}
        THEN LET k        == CHOOSE x \in ks : TRUE
                 existing == st.tbl[k]
             IN  IF ~ShouldForce(ItemDate(item.day), c) THEN st
                 ELSE [st EXCEPT
                        !.tbl[k] = UpdatedDailySleepRow(existing, item),
                        !.written = @ \cup {item.id},
                        !.new_count = @ + 1,
                        !.sig = @ \/ DailyScoreChanged(existing.score, Get(item.score))]
        ELSE [st EXCEPT
                !.pending = Append(@, NewDailySleepRow(c.user_id, item, c.today)),
                !.new_count = @ + 1,
                !.sig = TRUE]

RECURSIVE DailySleepLoop(_, _, _, _)
DailySleepLoop(st, sleep_data, i, c) ==
    IF i > Len(sleep_data) THEN st
    ELSE DailySleepLoop(DailySleepStep(st, sleep_data[i], c), sleep_data, i + 1, c)

\* _sync_daily_sleep_data
SyncDailySleepData(tbl, sleep_data, c) ==
    DailySleepLoop(LoopStart(tbl), sleep_data, 1, c)

\* ------------------------------------------------------------------ readiness

\* OuraDailyReadiness(...) of a new record
NewReadinessRow(user_id, item, t) ==
    [user_id |-> user_id,
     oura_id |-> item.id,
     day |-> IF HasDay(item.day) THEN item.day ELSE t,
     score |-> Get(item.score)]

\* the existing readiness row after the update branch
UpdatedReadinessRow(existing, item) ==
    [existing EXCEPT
        !.day = IF HasDay(item.day) THEN item.day ELSE existing.day,
        !.score = Get(item.score)]

\* one iteration of the loop of _sync_readiness_data (the activity, stress, spo2,
\* cardiovascular age, resilience and vo2 max reconcilers have the same loop)
ReadinessStep(st, item, c) ==
    IF st.err \/ item.id = NoId THEN st
    ELSE
    LET ks == Matching(st.tbl, item.id)
    IN  IF Cardinality(ks) > 1 \/ DayRaises(item.day) THEN [st EXCEPT !.err = TRUE]
        ELSE IF ks # {}
        THEN LET k        == CHOOSE x \in ks : TRUE
                 existing == st.tbl[k]
             IN  IF ~ShouldForce(ItemDate(item.day), c) THEN st
                 ELSE [st EXCEPT
                        !.tbl[k] = UpdatedReadinessRow(existing, item),
                        !.written = @ \cup {item.id}]
        ELSE [st EXCEPT
                !.pending = Append(@, NewReadinessRow(c.user_id, item, c.today)),
                !.new_count = @ + 1]

RECURSIVE ReadinessLoop(_, _, _, _)
ReadinessLoop(st, readiness_data, i, c) ==
    IF i > Len(readiness_data) THEN st
    ELSE ReadinessLoop(ReadinessStep(st, readiness_data[i], c), readiness_data, i + 1, c)

\* _sync_readiness_data
SyncReadinessData(tbl, readiness_data, c) ==
    ReadinessLoop(LoopStart(tbl), readiness_data, 1, c)

\* ------------------------------------------------------------------ the pass

\* (mutant) the range ends today
EndDateToday(t) == t

\* end_date = today_hk() + timedelta(days=1): the vendor's range is [start_date, end_date)
EndDate(t) == t + 1

\* start_date = today_hk() - timedelta(days=days - 1)
StartDate(t, days) == t - (days - 1)

\* the arguments of the loops: force, force_today, today, force_recent_date
Ctx(user_id, a, t) ==
    [user_id |-> user_id, force |-> a.force, force_today |-> a.force_today, today |-> t,
     force_recent_date |-> ForceRecentDate(t, a.force_recent_days)]

\* (mutant) the pass returns its significance with the counts
ReturnedKeysWithSignificance(stats) == DOMAIN stats \cup {"significant_change"}

\* "return stats": the keys of the dict the caller of a completed pass receives
ReturnedKeys(stats) == DOMAIN stats

\* stats: {stream: new_count}
StatsOnly(sleep, daily, readiness) ==
    [sleep |-> sleep.new_count, daily_sleep |-> daily.new_count, readiness |-> readiness.new_count]

ZeroStats == [sleep |-> 0, daily_sleep |-> 0, readiness |-> 0]

\* sync_user_data from the fetched data up to its commit: the three reconcilers
\* in turn on one session, each reading the tables as they are stored
\* (tables); what they changed and added stays in the session
Reconcile(tables, user_id, a, data, t) ==
    LET c     == Ctx(user_id, a, t)
        sl    == SyncSleepData(tables.sleep, data.sleep, data.sleep_details, c)
        ds    == IF sl.err THEN [LoopStart(tables.daily_sleep) EXCEPT !.err = TRUE]
                 ELSE SyncDailySleepData(tables.daily_sleep, data.sleep, c)
        rd    == IF ds.err THEN [LoopStart(tables.readiness) EXCEPT !.err = TRUE]
                 ELSE SyncReadinessData(tables.readiness, data.readiness, c)
    IN  [sl |-> sl, ds |-> ds, rd |-> rd]

\* the table after the flush of a session: the rows the session changed are
\* written over the stored ones, the rows it added come last
Flushed(stored, st) ==
    [k \in 1..Len(stored) |->
        IF stored[k].oura_id \in st.written
        THEN st.tbl[CHOOSE j \in Matching(st.tbl, stored[k].oura_id) : TRUE]
        ELSE stored[k]] \o st.pending

\* "await self.db.commit()" and what follows it, the tables being as they are
\* stored by then: any exception, of a reconciler or of the commit, rolls the
\* session back and is raised again.  The result holds the tables as the pass
\* leaves them, what it returned (ret_keys: the keys of the returned dict,
\* stats: their values) and the has_significant_sleep_change it logged.
Commit(tables, x) ==
    LET raise == \/ x.rd.err
                 \/ UniqueViolation(tables.sleep, x.sl.pending)
                 \/ UniqueViolation(tables.daily_sleep, x.ds.pending)
                 \/ UniqueViolation(tables.readiness, x.rd.pending)
    IN  IF raise
        THEN [status |-> "error", tables |-> tables, ret_keys |-> {}, stats |-> ZeroStats,
              sig |-> FALSE,
              written |-> [sleep |-> {}, daily_sleep |-> {}, readiness |-> {}]]
        ELSE [status |-> "ok",
              tables |-> [sleep |-> Flushed(tables.sleep, x.sl),
                          daily_sleep |-> Flushed(tables.daily_sleep, x.ds),
                          readiness |-> Flushed(tables.readiness, x.rd)],
              ret_keys |-> ReturnedKeys(StatsOnly(x.sl, x.ds, x.rd)),
              stats |-> StatsOnly(x.sl, x.ds, x.rd),
              sig |-> (x.sl.sig \/ x.ds.sig),
              written |-> [sleep |-> x.sl.written, daily_sleep |-> x.ds.written,
                           readiness |-> x.rd.written]]

\* sync_user_data from the fetched data on, no other pass in between
RunPass(tables, user_id, a, data, t) ==
    Commit(tables, Reconcile(tables, user_id, a, data, t))

\* ------------------------------------------------------------------ access token

\* the row of oura_auth a pass reads: present (the row is there, active, and holds
\* an access token), expires_in (token_expires_at - now_hk() in minutes, None
\* when the row has no expiry), refresh_token (the row holds one)
AuthRow(present, expires_in, refresh_token) ==
    [present |-> present, expires_in |-> expires_in, refresh_token |-> refresh_token]

\* (mutant) a failed refresh hands out the stale token
GetAccessTokenStale(auth, refresh_ok) ==
    IF ~auth.present THEN [token |-> FALSE, refreshed |-> FALSE]
    ELSE [token |-> TRUE,
          refreshed |-> (auth.expires_in # None /\ auth.expires_in < 0
                            /\ auth.refresh_token /\ refresh_ok)]

\* get_access_token: the token is refreshed only when it has expired; a refresh
\* that fails, or an expired token without a refresh token, gives None
GetAccessToken(auth, refresh_ok) ==
    IF ~auth.present THEN [token |-> FALSE, refreshed |-> FALSE]
    ELSE IF auth.expires_in # None /\ auth.expires_in < 0
    THEN IF auth.refresh_token /\ refresh_ok
         THEN [token |-> TRUE, refreshed |-> TRUE]
         ELSE [token |-> FALSE, refreshed |-> FALSE]
    ELSE [token |-> TRUE, refreshed |-> FALSE]

\* ------------------------------------------------------------------ the fetch

Streams == {"sleep", "sleep_details", "readiness"}

\* the vendor returns the records of [start_date, end_date): a record dated
\* end_date or later is not in the answer
InRange(rec, start_date, end_date) ==
    (HasDay(rec.day) /\ rec.day # BadDay) => (start_date <= rec.day /\ rec.day < end_date)

\* the records of a stream that the vendor returns for the range
InRangeOf(recs, start_date, end_date) ==
    SelectSeq(recs, LAMBDA x : InRange(x, start_date, end_date))

\* (mutant) one failed request fails the whole fetch
GetAllDailyDataAllOrNothing(held, failed, start_date, end_date) ==
    [k \in Streams |-> IF failed # {} THEN <<>> ELSE InRangeOf(held[k], start_date, end_date)]

\* get_all_daily_data: one request per stream; a stream whose request fails
\* answers [] and the others are not affected
GetAllDailyData(held, failed, start_date, end_date) ==
    [k \in Streams |-> IF k \in failed THEN <<>> ELSE InRangeOf(held[k], start_date, end_date)]

\* a pass that got no access token returns {} before it fetches anything
NoTokenPass(tables) ==
    [status |-> "no_token", tables |-> tables, ret_keys |-> {}, stats |-> ZeroStats,
     sig |-> FALSE, written |-> [sleep |-> {}, daily_sleep |-> {}, readiness |-> {}]]

Tables == [sleep |-> oura_sleep, daily_sleep |-> oura_daily_sleep, readiness |-> oura_daily_readiness]

NoTables == [sleep |-> <<>>, daily_sleep |-> <<>>, readiness |-> <<>>]

NoData == [sleep |-> <<>>, sleep_details |-> <<>>, readiness |-> <<>>]

\* what a pass did before it reconciled: the auth row it read (auth), whether a
\* refresh would go through (refresh_ok), whether it refreshed the token
\* (refreshed), whether it asked the vendor for data (fetched) and for which
\* range, what the vendor held (held) and which of its requests failed (failed)
NoObs ==
    [auth |-> AuthRow(FALSE, None, FALSE), refresh_ok |-> TRUE, refreshed |-> FALSE,
     fetched |-> FALSE, range |-> <<>>, held |-> NoData, failed |-> {},
     overlapped |-> FALSE]

NoPass ==
    [status |-> "none", user_id |-> "", args |-> [days |-> 0, force |-> FALSE,
     force_today |-> FALSE, force_recent_days |-> 0], data |-> NoData, repeat |-> FALSE,
     ret_keys |-> {}, stats |-> ZeroStats, sig |-> FALSE,
     written |-> [sleep |-> {}, daily_sleep |-> {}, readiness |-> {}],
     obs |-> NoObs]

\* the record of a pass
PassRecord(r, user_id, a, data, repeat, obs) ==
    [status |-> r.status, user_id |-> user_id, args |-> a, data |-> data, repeat |-> repeat,
     ret_keys |-> r.ret_keys, stats |-> r.stats, sig |-> r.sig, written |-> r.written,
     obs |-> obs]

\* OuraSyncService.sync_user_data(user_id, days, force, force_today, force_recent_days)
\* from the auth row it reads (auth), the outcome of a token refresh should it
\* try one (refresh_ok), the records the vendor holds (held) and the streams
\* whose request fails (failed)
PassOf(tables, user_id, a, auth, refresh_ok, held, failed, t) ==
    LET tok        == GetAccessToken(auth, refresh_ok)
        start_date == StartDate(t, a.days)
        end_date   == EndDate(t)
        data       == IF tok.token THEN GetAllDailyData(held, failed, start_date, end_date)
                      ELSE NoData
    IN  [r    |-> IF tok.token THEN RunPass(tables, user_id, a, data, t)
                  ELSE NoTokenPass(tables),
         data |-> data,
         obs  |-> [auth |-> auth, refresh_ok |-> refresh_ok,
                   refreshed |-> tok.refreshed, fetched |-> tok.token,
                   range |-> IF tok.token THEN <<start_date, end_date>> ELSE <<>>,
                   held |-> held, failed |-> failed, overlapped |-> FALSE]]

\* one call of sync_user_data on its own session
SyncUserDataWith(user_id, a, auth, refresh_ok, held, failed) ==
    \E p \in {PassOf(Tables, user_id, a, auth, refresh_ok, held, failed, today)} :
        /\ oura_sleep' = p.r.tables.sleep
        /\ oura_daily_sleep' = p.r.tables.daily_sleep
        /\ oura_daily_readiness' = p.r.tables.readiness
        /\ prev' = Tables
        /\ last' = PassRecord(p.r, user_id, a, p.data, last.status # "none", p.obs)
        /\ UNCHANGED <<today, grouped, batch, inflight, polar_vars, debt, sched>>

\* sync_user_data up to its commit, while other passes may be under way: the
\* pass has fetched data and reconciled it against the tables as stored now
BeginSyncUserData(job, user_id, a, data) ==
    /\ inflight' = Append([k \in 1..Len(inflight) |-> [inflight[k] EXCEPT !.overlapped = TRUE]],
                          [job |-> job, user_id |-> user_id, args |-> a, data |-> data,
                           session |-> Reconcile(Tables, user_id, a, data, today),
                           overlapped |-> inflight # <<>>])
    /\ UNCHANGED <<today, oura_sleep, oura_daily_sleep, oura_daily_readiness, prev, last,
                   grouped, batch, polar_vars, debt, sched>>

\* the commit of the pass at position i, and its return or its exception
CommitSyncUserData(i) ==
    LET p == inflight[i]
        r == Commit(Tables, p.session)
    IN  /\ oura_sleep' = r.tables.sleep
        /\ oura_daily_sleep' = r.tables.daily_sleep
        /\ oura_daily_readiness' = r.tables.readiness
        /\ prev' = Tables
        /\ last' = PassRecord(r, p.user_id, p.args, p.data, FALSE,
                              [NoObs EXCEPT !.auth = AuthRow(TRUE, None, FALSE),
                                            !.fetched = TRUE,
                                            !.range = <<StartDate(today, p.args.days),
                                                        EndDate(today)>>,
                                            !.held = p.data,
                                            !.overlapped = p.overlapped])
        /\ inflight' = SubSeq(inflight, 1, i - 1) \o SubSeq(inflight, i + 1, Len(inflight))
        /\ UNCHANGED <<today, grouped, batch, polar_vars, debt, sched>>

\* the users the job synchronises, in the order get_oura_active_users gives them
ActiveUsers == {<<"u1", "u2">>, <<"u2", "u1">>}

\* (mutant) the exception of a user's pass leaves the loop
GoesOnIfOk(status) == status # "error"

\* "except Exception as e: logger.error(...); fail_count += 1": whatever the
\* pass of a user did, the loop goes on to the next user
GoesOn(status) == TRUE

RECURSIVE JobLoop(_, _, _, _)
\* the loop of sync_oura_data_job: for each user a session of its own and
\* sync_user_data(user.id, days=3, force=True) inside try/except; an exception is
\* logged and the loop goes on
JobLoop(tables, users, inputs, t) ==
    IF users = <<>> THEN [tables |-> tables, results |-> <<>>]
    ELSE LET user  == Head(users)
             x     == inputs[user]
             p     == PassOf(tables, user, [days |-> 3, force |-> TRUE, force_today |-> FALSE,
                                            force_recent_days |-> 0],
                             x.auth, TRUE, x.held, {}, t)
             rest  == IF GoesOn(p.r.status) THEN JobLoop(p.r.tables, Tail(users), inputs, t)
                      ELSE [tables |-> p.r.tables, results |-> <<>>]
         IN  [tables  |-> rest.tables,
              results |-> <<[user_id |-> user, status |-> p.r.status, data |-> p.data,
                             before |-> tables, after |-> p.r.tables]>> \o rest.results]

\* sync_oura_data_job, the vendor holding inputs[user].held for each user and
\* the user's auth row being inputs[user].auth
SyncOuraDataJobOf(users, inputs) ==
    LET res == JobLoop(Tables, users, inputs, today)
    IN  /\ oura_sleep' = res.tables.sleep
        /\ oura_daily_sleep' = res.tables.daily_sleep
        /\ oura_daily_readiness' = res.tables.readiness
        /\ prev' = Tables
        /\ batch' = res.results
        /\ UNCHANGED <<today, last, grouped, inflight, polar_vars, debt, sched>>

\* the pass with the access token there or not (token) and every request
\* answered: data is what the vendor holds in the range asked for
SyncUserData(user_id, a, token, data) ==
    SyncUserDataWith(user_id, a, AuthRow(token, None, FALSE), TRUE, data, {})

\* ------------------------------------------------------------------ grouped sleep

\* the rows of one user and one day, in the order of the answer: long_sleep
\* first, then by falling duration (rows that tie keep the order of the table)
Before(r1, k1, r2, k2) ==
    LET t1 == IF r1.sleep_type = "long_sleep" THEN 0 ELSE 1
        t2 == IF r2.sleep_type = "long_sleep" THEN 0 ELSE 1
        d1 == IF Truthy(r1.total_sleep_duration) THEN r1.total_sleep_duration ELSE 0
        d2 == IF Truthy(r2.total_sleep_duration) THEN r2.total_sleep_duration ELSE 0
    IN  \/ t1 < t2
        \/ (t1 = t2 /\ d1 > d2)
        \/ (t1 = t2 /\ d1 = d2 /\ k1 < k2)

RECURSIVE SortedRows(_, _)
SortedRows(tbl, ks) ==
    IF ks = {} THEN <<>>
    ELSE LET k == CHOOSE x \in ks : \A y \in ks \ {x} : Before(tbl[x], x, tbl[y], y)
         IN  <<tbl[k]>> \o SortedRows(tbl, ks \ {k})

\* summary_score: the sleep_score of the first long_sleep row that has one
SummaryScore(day_records) ==
    LET ks == {k \in 1..Len(day_records) :
                day_records[k].sleep_type = "long_sleep" /\ Truthy(day_records[k].sleep_score)}
    IN  IF ks = {} THEN None ELSE day_records[CHOOSE k \in ks : \A j \in ks : k <= j].sleep_score

RECURSIVE SumDeltas(_, _)
SumDeltas(day_records, i) ==
    IF i > Len(day_records) THEN 0
    ELSE (IF Truthy(day_records[i].sleep_score_delta) THEN day_records[i].sleep_score_delta ELSE 0)
         + SumDeltas(day_records, i + 1)

\* total_delta = sum(r.sleep_score_delta or 0 for r in day_records)
TotalDelta(day_records) == SumDeltas(day_records, 1)

\* base_score = summary_score - total_delta if summary_score else None
BaseScore(day_records) ==
    IF Truthy(SummaryScore(day_records)) THEN SummaryScore(day_records) - TotalDelta(day_records)
    ELSE None

\* one segment of the answer; a long_sleep segment shows the base score
Segment(r, base_score) ==
    [sleep_type |-> r.sleep_type,
     score |-> IF r.sleep_type = "long_sleep" /\ base_score # None THEN base_score ELSE r.sleep_score,
     sleep_score_delta |-> r.sleep_score_delta,
     total_sleep_duration |-> r.total_sleep_duration]

\* DailySleepResponse of one day
DailySleepResponse(day, day_records) ==
    [day |-> day,
     summary_score |-> SummaryScore(day_records),
     base_score |-> BaseScore(day_records),
     segments |-> [i \in 1..Len(day_records) |-> Segment(day_records[i], BaseScore(day_records))]]

\* the days of the answer, latest first
RECURSIVE GroupedRecords(_, _, _)
GroupedRecords(tbl, user_id, days) ==
    IF days = {} THEN <<>>
    ELSE LET day == CHOOSE d \in days : \A e \in days : e <= d
             ks  == {k \in 1..Len(tbl) : tbl[k].user_id = user_id /\ tbl[k].day = day}
         IN  <<DailySleepResponse(day, SortedRows(tbl, ks))>> \o GroupedRecords(tbl, user_id, days \ {day})

\* get_grouped_sleep_data(days): the user's rows since today - days, by day
GroupedSleepData(tbl, user_id, days, t) ==
    LET ks == {k \in 1..Len(tbl) : tbl[k].user_id = user_id /\ tbl[k].day >= t - days}
    IN  GroupedRecords(tbl, user_id, {tbl[k].day : k \in ks})

\* ------------------------------------------------------------------ Polar

\* A training session of the vendor is [external_id, day, duration_sec,
\* zone1_sec .. zone5_sec, cardio_load], day being the date of its start_time
\* and cardio_load the vendor's load in hundredths, None when it gives none; a
\* row of polar_exercises has the same fields with user_id and exercise_id; a
\* row of daily_training_summary is [user_id, date, sessions_count,
\* total_duration_min, zone2_min, hi_min, trimp, flags], trimp in hundredths
\* (the column is DECIMAL(10, 2)); a row of weekly_training_summary is [user_id,
\* week_start_date, total_duration_min, zone2_min, hi_min, weekly_trimp,
\* training_days, rest_days].  Day 0 is a Monday.

SecondsPerMinute == 60

DaysPerWeek == 7

\* settings.TARGET_ZONE2_MIN_RANGE, settings.TARGET_HI_MAX_RANGE
TARGET_ZONE2_MIN_RANGE == 45
TARGET_HI_MAX_RANGE == 5

\* "DailyTrainingSummary.hi_min > 5": a day of high intensity
HI_DAY_OVER_MIN == 5

\* "_check_consecutive_high_intensity(user_id, target_date, days=3)"
CONSECUTIVE_DAYS == 3

\* date.weekday(): 0 for Monday
Weekday(dt) == dt % DaysPerWeek

\* get_week_start(dt) = dt - timedelta(days=dt.weekday())
GetWeekStart(dt) == dt - Weekday(dt)

\* end_date = today_hk()
PolarEndDate(t) == t

\* start_date = end_date - timedelta(days=days - 1)
PolarStartDate(t, days) == PolarEndDate(t) - (days - 1)

\* fetch_training_data: the sessions that start on a day of [start_date,
\* end_date], both ends included; [] when the token cannot be had (the
\* exception is logged and swallowed)
FetchTrainingData(held, token_ok, start_date, end_date) ==
    IF ~token_ok THEN <<>>
    ELSE SelectSeq(held, LAMBDA x : start_date <= x.day /\ x.day <= end_date)

\* select(PolarExercise).where(PolarExercise.exercise_id == external_id)
MatchingExercise(tbl, id) == {k \in 1..Len(tbl) : tbl[k].exercise_id = id}

\* the unique constraint on exercise_id, checked when the pass commits
ExerciseUniqueViolation(tbl, pending) ==
    \/ \E i \in 1..Len(pending) : MatchingExercise(tbl, pending[i].exercise_id) # {}
    \/ \E i, j \in 1..Len(pending) : i < j /\ pending[i].exercise_id = pending[j].exercise_id

\* the existing row after "if existing and force"
UpdatedExercise(existing, session) ==
    [existing EXCEPT !.day = session.day,
                     !.duration_sec = session.duration_sec,
                     !.zone1_sec = session.zone1_sec,
                     !.zone2_sec = session.zone2_sec,
                     !.zone3_sec = session.zone3_sec,
                     !.zone4_sec = session.zone4_sec,
                     !.zone5_sec = session.zone5_sec]

\* PolarExercise(...) of a new session; the vendor's load comes with the session
NewExercise(user_id, session) ==
    [user_id |-> user_id,
     exercise_id |-> session.external_id,
     day |-> session.day,
     duration_sec |-> session.duration_sec,
     zone1_sec |-> session.zone1_sec,
     zone2_sec |-> session.zone2_sec,
     zone3_sec |-> session.zone3_sec,
     zone4_sec |-> session.zone4_sec,
     zone5_sec |-> session.zone5_sec,
     cardio_load |-> session.cardio_load]

\* one iteration of the loop of sync_user_exercises
ExerciseStep(st, session, user_id, force) ==
    LET ks == MatchingExercise(st.tbl, session.external_id)
    IN  IF ks # {} /\ ~force THEN st
        ELSE IF ks # {}
        THEN LET k == CHOOSE x \in ks : TRUE
             IN  [st EXCEPT !.tbl[k] = UpdatedExercise(@, session)]
        ELSE [st EXCEPT
                !.pending = Append(@, NewExercise(user_id, session)),
                !.new_count = @ + 1]

RECURSIVE ExerciseLoop(_, _, _, _)
ExerciseLoop(st, sessions, user_id, force) ==
    IF sessions = <<>> THEN st
    ELSE ExerciseLoop(ExerciseStep(st, Head(sessions), user_id, force), Tail(sessions),
                      user_id, force)

\* _trigger_ai_update(user_id, target_date): the calls of
\* generate_daily_recommendation it makes, as <<user_id, target_date of the call>>
TriggerAiUpdate(user_id, target_date, t) ==
    IF target_date # t - 1 THEN {} ELSE {<<user_id, t>>}

\* the exercises of the user that start on the day
ExercisesOn(exercises, user_id, target_date) ==
    {k \in 1..Len(exercises) :
        exercises[k].user_id = user_id /\ exercises[k].day = target_date}

\* sum(v[k] for k in ks)
RECURSIVE SumAt(_, _)
SumAt(v, ks) ==
    IF ks = {} THEN 0
    ELSE LET k == CHOOSE x \in ks : TRUE
         IN  v[k] + SumAt(v, ks \ {k})

\* sum(f(row) for row in rows), the rows being those at the positions ks
SumOver(rows, ks, f(_)) == SumAt([k \in ks |-> f(rows[k])], ks)

SumDuration(exercises, ks) == SumOver(exercises, ks, LAMBDA e : e.duration_sec)

\* round(n / d) of two naturals, in hundredths where the code rounds to two
\* places (no session of the model falls on a tie)
RoundDiv(n, d) == (2 * n + d) \div (2 * d)

\* calculate_trimp, in hundredths: the vendor's cardio_load when it is there,
\* else sum(z * w for z, w in zip(zones, [1.0, 1.25, 1.5, 1.75, 2.0])) / 60
CalculateTrimp(e) ==
    IF Truthy(e.cardio_load) THEN e.cardio_load
    ELSE RoundDiv(100 * e.zone1_sec + 125 * e.zone2_sec + 150 * e.zone3_sec
                    + 175 * e.zone4_sec + 200 * e.zone5_sec, SecondsPerMinute)

\* the rows of the user from start_date to end_date
SummariesIn(summaries, user_id, start_date, end_date) ==
    {k \in 1..Len(summaries) :
        /\ summaries[k].user_id = user_id
        /\ summaries[k].date >= start_date
        /\ summaries[k].date <= end_date}

\* _check_consecutive_high_intensity(user_id, end_date, days): the number of
\* stored summaries of the last days days whose hi_min is over 5
CheckConsecutiveHighIntensity(summaries, user_id, end_date, days) ==
    Cardinality({k \in SummariesIn(summaries, user_id, end_date - (days - 1), end_date) :
                    summaries[k].hi_min > HI_DAY_OVER_MIN})

\* _assess_daily_flags: the keys of the flags dict.  It runs before the summary
\* of target_date is written, so the summaries it counts are the stored ones.
AssessDailyFlags(zone2_min, hi_min, summaries, user_id, target_date) ==
    (IF zone2_min < TARGET_ZONE2_MIN_RANGE THEN {"zone2_low"} ELSE {})
    \cup (IF hi_min > TARGET_HI_MAX_RANGE THEN {"hi_excessive"} ELSE {})
    \cup (IF CheckConsecutiveHighIntensity(summaries, user_id, target_date,
                                           CONSECUTIVE_DAYS) >= CONSECUTIVE_DAYS
          THEN {"consecutive_high"} ELSE {})

\* the aggregates of calculate_daily_summary over the exercises at ks
DailyTotals(exercises, ks) ==
    [sessions_count     |-> Cardinality(ks),
     total_duration_min |-> SumDuration(exercises, ks) \div SecondsPerMinute,
     zone2_min          |-> SumOver(exercises, ks, LAMBDA e : e.zone2_sec) \div SecondsPerMinute,
     hi_min             |-> SumOver(exercises, ks, LAMBDA e : e.zone4_sec + e.zone5_sec)
                                \div SecondsPerMinute,
     trimp              |-> SumOver(exercises, ks, CalculateTrimp)]

\* "if summary: (update) else: (new) self.db.add(summary)": the row takes the
\* place of the stored one at ms, or is added
Upsert(tbl, ms, row) ==
    IF ms # {} THEN [tbl EXCEPT ![CHOOSE k \in ms : TRUE] = row] ELSE Append(tbl, row)

\* the row calculate_daily_summary writes from the aggregates tot
DailySummaryRow(user_id, target_date, tot, summaries) ==
    [user_id |-> user_id, date |-> target_date,
     sessions_count |-> tot.sessions_count,
     total_duration_min |-> tot.total_duration_min,
     zone2_min |-> tot.zone2_min,
     hi_min |-> tot.hi_min,
     trimp |-> tot.trimp,
     flags |-> AssessDailyFlags(tot.zone2_min, tot.hi_min, summaries, user_id, target_date)]

\* calculate_daily_summary(user_id, target_date): None when the user has no
\* exercise that day; else the summary row is updated or added, committed, and
\* _trigger_ai_update is called
CalculateDailySummary(exercises, summaries, user_id, target_date, t) ==
    LET ks == ExercisesOn(exercises, user_id, target_date)
    IN  IF ks = {} THEN [summaries |-> summaries, done |-> FALSE, generated |-> {}]
        ELSE [summaries |-> Upsert(summaries,
                                   {k \in 1..Len(summaries) :
                                        summaries[k].user_id = user_id
                                            /\ summaries[k].date = target_date},
                                   DailySummaryRow(user_id, target_date,
                                                   DailyTotals(exercises, ks), summaries)),
              done      |-> TRUE,
              generated |-> TriggerAiUpdate(user_id, target_date, t)]

\* the aggregates of calculate_weekly_summary over the daily summaries at ks
WeeklyTotals(summaries, ks) ==
    [total_duration_min |-> SumOver(summaries, ks, LAMBDA d : d.total_duration_min),
     zone2_min          |-> SumOver(summaries, ks, LAMBDA d : d.zone2_min),
     hi_min             |-> SumOver(summaries, ks, LAMBDA d : d.hi_min),
     weekly_trimp       |-> SumOver(summaries, ks, LAMBDA d : d.trimp),
     training_days      |-> Cardinality(ks),
     rest_days          |-> DaysPerWeek - Cardinality(ks)]

\* (mutant) the week is the seven days that end on week_start_date
DaysOfWeekBefore(week_start_date) == (week_start_date - (DaysPerWeek - 1))..week_start_date

\* week_end_date = week_start_date + timedelta(days=6)
DaysOfWeek(week_start_date) == week_start_date..(week_start_date + (DaysPerWeek - 1))

\* the row calculate_weekly_summary writes from the aggregates tot
WeeklySummaryRow(user_id, week_start_date, tot) ==
    [user_id |-> user_id, week_start_date |-> week_start_date,
     total_duration_min |-> tot.total_duration_min,
     zone2_min |-> tot.zone2_min,
     hi_min |-> tot.hi_min,
     weekly_trimp |-> tot.weekly_trimp,
     training_days |-> tot.training_days,
     rest_days |-> tot.rest_days]

\* calculate_weekly_summary(user_id, week_start_date): None, and nothing
\* written, when the user has no daily summary in the week; else the weekly row
\* is updated or added from the daily summaries of the week, and committed.
\* weeks holds the <<user_id, week_start_date>> it wrote.
CalculateWeeklySummary(summaries, weekly, user_id, week_start_date) ==
    LET ks == {k \in 1..Len(summaries) :
                    summaries[k].user_id = user_id
                        /\ summaries[k].date \in DaysOfWeek(week_start_date)}
    IN  IF ks = {} THEN [weekly |-> weekly, weeks |-> {}]
        ELSE [weekly |-> Upsert(weekly,
                                {k \in 1..Len(weekly) :
                                    weekly[k].user_id = user_id
                                        /\ weekly[k].week_start_date = week_start_date},
                                WeeklySummaryRow(user_id, week_start_date,
                                                 WeeklyTotals(summaries, ks))),
              weeks  |-> {<<user_id, week_start_date>>}]

\* what a loop over computations returns after one and the rest of them
Joined(one, rest, key, raised) ==
    [summaries  |-> rest.summaries,
     summarised |-> (IF one.done THEN {key} ELSE {}) \cup rest.summarised,
     raised     |-> raised \/ rest.raised,
     generated  |-> one.generated \cup rest.generated]

RECURSIVE DailyLoop(_, _, _, _, _, _, _)
\* the rest of the loop after the computation one of the first of the dates
DailyLoopAfter(exercises, one, user_id, dates, fails, t, stop) ==
    Joined(one, DailyLoop(exercises, one.summaries, user_id, Tail(dates), fails, t, stop),
           <<user_id, Head(dates)>>, Head(dates) \in fails)

\* calculate_daily_summary for each of the dates in turn, fails holding the
\* dates whose computation raises: the first one that raises ends the loop when
\* the loop is inside one try (stop), else it is logged and the loop goes on
DailyLoop(exercises, summaries, user_id, dates, fails, t, stop) ==
    IF dates = <<>>
    THEN [summaries |-> summaries, summarised |-> {}, raised |-> FALSE, generated |-> {}]
    ELSE IF Head(dates) \in fails /\ stop
    THEN [summaries |-> summaries, summarised |-> {}, raised |-> TRUE, generated |-> {}]
    ELSE DailyLoopAfter(exercises,
                        IF Head(dates) \in fails
                        THEN [summaries |-> summaries, done |-> FALSE, generated |-> {}]
                        ELSE CalculateDailySummary(exercises, summaries, user_id,
                                                   Head(dates), t),
                        user_id, dates, fails, t, stop)

\* the result of the daily loop d with the weekly summary w after it
WithWeekly(d, w) ==
    [summaries  |-> d.summaries,
     weekly     |-> w.weekly,
     weeks      |-> w.weeks,
     summarised |-> d.summarised,
     raised     |-> d.raised,
     generated  |-> d.generated]

\* calculate_weekly_summary after the daily loop d, unless the loop raised
WeeklyAfter(d, weekly, user_id, week_start_date) ==
    WithWeekly(d, IF d.raised THEN [weekly |-> weekly, weeks |-> {}]
                  ELSE CalculateWeeklySummary(d.summaries, weekly, user_id, week_start_date))

\* _update_summaries: calculate_daily_summary for each date of the sessions, in
\* the order the set gives them, then calculate_weekly_summary for the week of
\* today; the first computation that raises ends it all, and the exception is
\* logged and swallowed
UpdateSummaries(exercises, summaries, weekly, user_id, dates, fails, t) ==
    WeeklyAfter(DailyLoop(exercises, summaries, user_id, dates, fails, t, TRUE),
                weekly, user_id, GetWeekStart(t))

\* dates_to_update: the days of the sessions
DatesOf(sessions) == {sessions[k].day : k \in 1..Len(sessions)}

\* the orders in which a set can be gone through
Orders(S) ==
    {o \in UNION {[1..n -> S] : n \in {Cardinality(S)}} :
        \A i, j \in 1..Cardinality(S) : o[i] = o[j] => i = j}

PolarTables ==
    [exercises |-> polar_exercises, summaries |-> daily_training_summary,
     weekly |-> weekly_training_summary]

\* no Polar pass yet (summarised: the <<user_id, date>> whose daily summary was
\* written, weeks: the <<user_id, week_start_date>> whose weekly summary was)
NoPolarPass ==
    [op |-> "none", status |-> "none", user_id |-> "", sessions |-> <<>>, new_count |-> 0,
     dates |-> <<>>, summarised |-> {}, weeks |-> {}, raised |-> FALSE, generated |-> {},
     before |-> [exercises |-> <<>>, summaries |-> <<>>, weekly |-> <<>>]]

\* "if new_count > 0: await self._update_summaries(...)"
SummariesWanted(new_count) == new_count > 0

\* (mutant) an exception of _update_summaries fails the pass
SummaryFailureRaises(raised) == raised

\* _update_summaries swallows what calculate_daily_summary raises: the pass
\* returns its counts all the same
SummaryFailureFails(raised) == FALSE

\* what sync_user_exercises leaves and returns once the loop over the sessions
\* has ended in st and the summaries in sm
PassResult(tables, rec, st, sm, dates) ==
    [tables |-> [exercises |-> st.tbl \o st.pending, summaries |-> sm.summaries,
                 weekly |-> sm.weekly],
     rec    |-> [rec EXCEPT
                    !.status = IF SummaryFailureFails(sm.raised) THEN "error" ELSE "ok",
                    !.new_count = st.new_count,
                    !.dates = IF SummariesWanted(st.new_count) THEN dates ELSE <<>>,
                    !.summarised = sm.summarised,
                    !.weeks = sm.weeks,
                    !.raised = sm.raised,
                    !.generated = sm.generated]]

\* the pass from the end of the loop over the sessions on: the commit, which
\* the unique constraint can fail, then "if new_count > 0: _update_summaries"
PassAfterLoop(tables, rec, st, user_id, dates, fails, t) ==
    IF ExerciseUniqueViolation(st.tbl, st.pending)
    THEN [tables |-> tables, rec |-> [rec EXCEPT !.status = "error"]]
    ELSE PassResult(tables, rec, st,
                    IF SummariesWanted(st.new_count)
                    THEN UpdateSummaries(st.tbl \o st.pending, tables.summaries, tables.weekly,
                                         user_id, dates, fails, t)
                    ELSE [summaries |-> tables.summaries, weekly |-> tables.weekly,
                          weeks |-> {}, summarised |-> {}, raised |-> FALSE,
                          generated |-> {}],
                    dates)

\* the pass once the sessions are fetched
PassOver(tables, sessions, rec, user_id, force, dates, fails, t) ==
    IF sessions = <<>> THEN [tables |-> tables, rec |-> [rec EXCEPT !.status = "ok"]]
    ELSE PassAfterLoop(tables, rec,
                       ExerciseLoop([tbl |-> tables.exercises, pending |-> <<>>,
                                     new_count |-> 0], sessions, user_id, force),
                       user_id, dates, fails, t)

\* PolarSyncService.sync_user_exercises(user_id, days, force) on the tables: the
\* vendor holds held, the token can be had or not, dates is the order in which
\* the days of the sessions are summarised and fails the days whose summary
\* raises.  The result holds the tables as the pass leaves them.
ExercisePass(tables, user_id, days, force, token_ok, held, dates, fails, t) ==
    LET sessions == FetchTrainingData(held, token_ok, PolarStartDate(t, days), PolarEndDate(t))
    IN  PassOver(tables, sessions,
                 [NoPolarPass EXCEPT !.op = "sync", !.user_id = user_id,
                                     !.sessions = sessions, !.before = tables],
                 user_id, force, dates, fails, t)

\* one call of sync_user_exercises on a session of its own (the 11:00 job calls
\* it with days=2 and without force)
SyncUserExercises(user_id, days, force, token_ok, held, dates, fails) ==
    /\ dates \in Orders(DatesOf(FetchTrainingData(held, token_ok, PolarStartDate(today, days),
                                                  PolarEndDate(today))))
    /\ fails \subseteq {dates[k] : k \in 1..Len(dates)}
    /\ \E p \in {ExercisePass(PolarTables, user_id, days, force, token_ok, held, dates, fails,
                              today)} :
        /\ polar_exercises' = p.tables.exercises
        /\ daily_training_summary' = p.tables.summaries
        /\ weekly_training_summary' = p.tables.weekly
        /\ plast' = p.rec
    /\ UNCHANGED <<today, oura_vars, debt, sched>>

\* "for i in range(min(days, 7))": the days today - 1 down to today - min(days, 7)
DaysBefore(t, days) ==
    [i \in 1..(IF days < DaysPerWeek THEN days ELSE DaysPerWeek) |-> t - i]

\* "for i in range(days)": the days today down to today - (days - 1)
DaysUpTo(t, days) == [i \in 1..days |-> t - (i - 1)]

\* POST /polar/sync: sync_user_exercises, then calculate_daily_summary for each
\* of the days before today, each in a try of its own, then
\* calculate_weekly_summary(user_id) for the week of date.today(), the date on
\* the server's own clock (server_today).  An exception of the pass is answered
\* with a 500.
SyncPolarData(user_id, days, force, token_ok, held, dates, fails, server_today) ==
    /\ dates \in Orders(DatesOf(FetchTrainingData(held, token_ok, PolarStartDate(today, days),
                                                  PolarEndDate(today))))
    /\ \E p \in {ExercisePass(PolarTables, user_id, days, force, token_ok, held, dates, fails,
                              today)} :
        IF p.rec.status = "error"
        THEN /\ plast' = [p.rec EXCEPT !.op = "api_sync"]
             /\ UNCHANGED <<polar_exercises, daily_training_summary, weekly_training_summary>>
        ELSE \E d \in {DailyLoop(p.tables.exercises, p.tables.summaries, user_id,
                                 DaysBefore(today, days), fails, today, FALSE)} :
             \E w \in {CalculateWeeklySummary(d.summaries, p.tables.weekly, user_id,
                                               GetWeekStart(server_today))} :
                /\ polar_exercises' = p.tables.exercises
                /\ daily_training_summary' = d.summaries
                /\ weekly_training_summary' = w.weekly
                /\ plast' = [p.rec EXCEPT !.op = "api_sync",
                                          !.summarised = @ \cup d.summarised,
                                          !.weeks = @ \cup w.weeks,
                                          !.raised = @ \/ d.raised,
                                          !.generated = @ \cup d.generated]
    /\ UNCHANGED <<today, oura_vars, debt, sched>>

\* POST /training/recalculate: calculate_daily_summary for each of the last
\* days days, then calculate_weekly_summary for the week of today; the first
\* exception ends the request with a 500, what was committed stays
RecalculateMetrics(user_id, days, fails) ==
    \E d \in {DailyLoop(polar_exercises, daily_training_summary, user_id,
                        DaysUpTo(today, days), fails, today, TRUE)} :
    \E w \in {IF d.raised THEN [weekly |-> weekly_training_summary, weeks |-> {}]
              ELSE CalculateWeeklySummary(d.summaries, weekly_training_summary, user_id,
                                          GetWeekStart(today))} :
        /\ daily_training_summary' = d.summaries
        /\ weekly_training_summary' = w.weekly
        /\ plast' = [NoPolarPass EXCEPT !.op = "recalculate",
                                        !.status = IF d.raised THEN "error" ELSE "ok",
                                        !.user_id = user_id,
                                        !.summarised = d.summarised,
                                        !.weeks = w.weeks,
                                        !.raised = d.raised,
                                        !.generated = d.generated,
                                        !.before = PolarTables]
        /\ UNCHANGED <<today, oura_vars, debt, sched, polar_exercises>>

\* what the metrics loop returns after the user's daily summary one, the
\* user's weekly summary wk and the rest of the users
JoinedMetrics(one, wk, rest, user_id, t) ==
    [summaries  |-> rest.summaries,
     weekly     |-> rest.weekly,
     weeks      |-> wk.weeks \cup rest.weeks,
     summarised |-> (IF one.done THEN {<<user_id, t - 1>>} ELSE {}) \cup rest.summarised,
     generated  |-> one.generated \cup rest.generated]

RECURSIVE MetricsLoop(_, _, _, _, _, _, _)
\* the rest of the loop after the user's daily summary one and weekly summary wk
MetricsLoopAfter(exercises, one, wk, users, fails, t, server_today) ==
    JoinedMetrics(one, wk,
                  MetricsLoop(exercises, one.summaries, wk.weekly, Tail(users), fails, t,
                              server_today),
                  Head(users), t)

\* the user's weekly summary after the daily summary one
MetricsLoopWeekly(exercises, one, weekly, users, fails, t, server_today) ==
    MetricsLoopAfter(exercises, one,
                     IF Head(users) \in fails THEN [weekly |-> weekly, weeks |-> {}]
                     ELSE CalculateWeeklySummary(one.summaries, weekly, Head(users),
                                                 GetWeekStart(server_today)),
                     users, fails, t, server_today)

\* the loop of calculate_metrics_job: calculate_daily_summary(user.id,
\* yesterday), then calculate_weekly_summary(user.id) for the week of
\* date.today(), on a session of the user's own, inside try/except
MetricsLoop(exercises, summaries, weekly, users, fails, t, server_today) ==
    IF users = <<>>
    THEN [summaries |-> summaries, weekly |-> weekly, summarised |-> {}, weeks |-> {},
          generated |-> {}]
    ELSE MetricsLoopWeekly(exercises,
                           IF Head(users) \in fails
                           THEN [summaries |-> summaries, done |-> FALSE, generated |-> {}]
                           ELSE CalculateDailySummary(exercises, summaries, Head(users),
                                                      t - 1, t),
                           weekly, users, fails, t, server_today)

\* calculate_metrics_job (11:15), fails being the users whose computation raises
CalculateMetricsJob(users, fails, server_today) ==
    \E res \in {MetricsLoop(polar_exercises, daily_training_summary, weekly_training_summary,
                            users, fails, today, server_today)} :
        /\ daily_training_summary' = res.summaries
        /\ weekly_training_summary' = res.weekly
        /\ plast' = [NoPolarPass EXCEPT !.op = "metrics", !.status = "ok",
                                        !.summarised = res.summarised,
                                        !.weeks = res.weeks,
                                        !.raised = (fails # {}),
                                        !.generated = res.generated,
                                        !.before = PolarTables]
        /\ UNCHANGED <<today, oura_vars, debt, sched, polar_exercises>>

\* generate_ai_recommendations_job (11:45): generate_daily_recommendation(user.id,
\* today, force_update=True) for each user
GenerateAiRecommendationsJob(users) ==
    /\ plast' = [NoPolarPass EXCEPT !.op = "generate", !.status = "ok",
                                    !.generated = {<<users[k], today>> : k \in 1..Len(users)},
                                    !.before = PolarTables]
    /\ UNCHANGED <<today, oura_vars, debt, sched, polar_exercises, daily_training_summary,
                   weekly_training_summary>>

\* ------------------------------------------------------------------ sleep debt

\* the baseline looks at the last 90 days and needs 30 durations of 3 to 12
\* hours, 20 of them after the outlier filter; the debt looks at the last 14
\* days and needs 5 records
BASELINE_WINDOW_DAYS == 90
BASELINE_MIN_RECORDS == 30
BASELINE_MIN_FILTERED == 20
BASELINE_MIN_SEC == 10800
BASELINE_MAX_SEC == 43200
DEBT_WINDOW_DAYS == 14
DEBT_MIN_RECORDS == 5

\* "weight = 1.0 - (i * 0.5 / 13)": in 26ths the weight of record i is 26 - i
WEIGHT_UNIT == 26

\* data_quality: "good" from 12 records, "moderate" from 8
QUALITY_GOOD == 12
QUALITY_MODERATE == 8

\* "recent_avg > previous_avg + 15": a quarter of an hour, in seconds
TREND_MARGIN_SEC == 900

\* int(x) of a quotient of integers: towards zero
TruncDiv(n, d) == IF n >= 0 THEN n \div d ELSE -((-n) \div d)

\* the values at the positions ks, smallest first
RECURSIVE Ascending(_, _)
Ascending(v, ks) ==
    IF ks = {} THEN <<>>
    ELSE LET k == CHOOSE x \in ks : \A y \in ks : v[x] <= v[y]
         IN  <<v[k]>> \o Ascending(v, ks \ {k})

RECURSIVE SumSeq(_)
SumSeq(q) == IF q = <<>> THEN 0 ELSE Head(q) + SumSeq(Tail(q))

\* np.percentile(a, 25 * quarters) of the sorted a, four times over: numpy
\* interpolates linearly between the two values around (len(a) - 1) * q
Percentile4(a, quarters) ==
    LET pos == quarters * (Len(a) - 1)
        lo  == pos \div 4 + 1
        r   == pos % 4
    IN  IF r = 0 THEN 4 * a[lo] ELSE 4 * a[lo] + r * (a[lo + 1] - a[lo])

\* the durations within [q1 - 1.5 * iqr, q3 + 1.5 * iqr]
IqrFiltered(a) ==
    LET q1  == Percentile4(a, 1)
        q3  == Percentile4(a, 3)
        iqr == q3 - q1
    IN  SelectSeq(a, LAMBDA d : 2 * q1 - 3 * iqr <= 8 * d /\ 8 * d <= 2 * q3 + 3 * iqr)

\* "if len(durations) < 30: return None"
EnoughForBaseline(n) == n >= BASELINE_MIN_RECORDS

\* _calculate_baseline_sleep(user_id, target_date): the mean, in whole minutes,
\* of the durations of the user's rows of the last 90 days that are 3 to 12
\* hours long, outliers left out; None when there are fewer than 30 such rows
CalculateBaselineSleep(tbl, user_id, target_date) ==
    LET ks == {k \in 1..Len(tbl) :
                /\ tbl[k].user_id = user_id
                /\ tbl[k].day >= target_date - (BASELINE_WINDOW_DAYS - 1)
                /\ tbl[k].day <= target_date
                /\ tbl[k].total_sleep_duration # None
                /\ tbl[k].total_sleep_duration >= BASELINE_MIN_SEC
                /\ tbl[k].total_sleep_duration <= BASELINE_MAX_SEC}
        durations == Ascending([k \in ks |-> tbl[k].total_sleep_duration], ks)
        filtered  == IqrFiltered(durations)
        used      == IF Len(filtered) < BASELINE_MIN_FILTERED THEN durations ELSE filtered
    IN  IF ~EnoughForBaseline(Len(durations)) THEN None
        ELSE SumSeq(used) \div (SecondsPerMinute * Len(used))

\* the positions of the rows at ks, latest day first (rows of one day in the
\* order of the table: the query orders by day only)
RECURSIVE LatestFirst(_, _)
LatestFirst(tbl, ks) ==
    IF ks = {} THEN <<>>
    ELSE LET k == CHOOSE x \in ks :
                    \A y \in ks : tbl[x].day > tbl[y].day \/ (tbl[x].day = tbl[y].day /\ x <= y)
         IN  <<k>> \o LatestFirst(tbl, ks \ {k})

\* "if len(sleep_records) < 5"
EnoughForDebt(n) == n >= DEBT_MIN_RECORDS

\* the weight of the record at index i (from 0), in 26ths
Weight(i) == WEIGHT_UNIT - i

\* no answer of calculate_sleep_debt yet
NoDebt ==
    [asked |-> FALSE, user_id |-> "", returned |-> FALSE, sleep_debt_minutes |-> None,
     baseline_sleep_minutes |-> None, recent_14d_avg_minutes |-> None,
     debt_trend |-> "", data_quality |-> "", weights |-> <<>>]

\* calculate_sleep_debt(user_id, target_date): None when there is no baseline
\* (returned is FALSE); the dict with sleep_debt_minutes None and data_quality
\* "insufficient" when the last 14 days hold fewer than 5 records with a
\* duration; else the estimate.  weights are the weights the loop used, in
\* 26ths.  The balance score is not in the model.
CalculateSleepDebt(tbl, user_id, target_date) ==
    LET baseline == CalculateBaselineSleep(tbl, user_id, target_date)
        ks == {k \in 1..Len(tbl) :
                /\ tbl[k].user_id = user_id
                /\ tbl[k].day >= target_date - (DEBT_WINDOW_DAYS - 1)
                /\ tbl[k].day <= target_date
                /\ tbl[k].total_sleep_duration # None}
        order   == LatestFirst(tbl, ks)
        n       == Len(order)
        secs    == [i \in 1..n |-> tbl[order[i]].total_sleep_duration]
        weights == [i \in 1..n |-> Weight(i - 1)]
        weighted_debt == SumSeq([i \in 1..n |->
                            (baseline * SecondsPerMinute - secs[i]) * weights[i]])
        total_weight  == SumSeq(weights)
        recent_3d     == SumSeq(SubSeq(secs, 1, 3))
        previous_4d   == SumSeq(SubSeq(secs, 4, 7))
        rec == [NoDebt EXCEPT !.asked = TRUE, !.user_id = user_id]
    IN  IF baseline = None THEN rec
        ELSE IF ~EnoughForDebt(n)
        THEN [rec EXCEPT !.returned = TRUE,
                         !.baseline_sleep_minutes = baseline,
                         !.debt_trend = "unknown",
                         !.data_quality = "insufficient"]
        ELSE [rec EXCEPT
                !.returned = TRUE,
                !.baseline_sleep_minutes = baseline,
                !.sleep_debt_minutes =
                    IF total_weight > 0
                    THEN TruncDiv(weighted_debt, SecondsPerMinute * total_weight)
                    ELSE 0,
                !.recent_14d_avg_minutes = SumSeq(secs) \div (SecondsPerMinute * n),
                !.debt_trend =
                    IF n < 7 THEN "stable"
                    ELSE IF 4 * recent_3d > 3 * previous_4d + 12 * TREND_MARGIN_SEC
                    THEN "improving"
                    ELSE IF 4 * recent_3d < 3 * previous_4d - 12 * TREND_MARGIN_SEC
                    THEN "worsening"
                    ELSE "stable",
                !.data_quality =
                    IF n >= QUALITY_GOOD THEN "good"
                    ELSE IF n >= QUALITY_MODERATE THEN "moderate"
                    ELSE "limited",
                !.weights = weights]

\* one call of calculate_sleep_debt(user_id), target_date being today_hk()
CalculateSleepDebtToday(user_id) ==
    /\ debt' = CalculateSleepDebt(oura_sleep, user_id, today)
    /\ UNCHANGED <<today, oura_vars, polar_vars, sched>>

\* ------------------------------------------------------------------ the schedule

\* The four daily jobs and the minute after 11:00 (Asia/Hong_Kong) at which
\* CronTrigger(hour=11, minute=...) fires each.  The scheduler runs a job's
\* coroutine when its trigger fires, whatever the other jobs are doing.
JobMinute == [polar |-> 0, metrics |-> 15, oura |-> 30, generate |-> 45]

Jobs == DOMAIN JobMinute

\* the clock of the model goes by quarters of an hour, up to 12:00
QUARTER_MINUTES == 15
LAST_MINUTE == 60

\* a job that has not been fired yet
Waiting == [state |-> "waiting", todo |-> <<>>]

\* before 11:00: no job fired; unfinished will hold the jobs that were not done
\* when generate_ai_recommendations_job started
NoSched == [clock |-> 0, jobs |-> [j \in Jobs |-> Waiting], unfinished |-> {}]

\* the job is through with the user it was at
Advanced(s, j) ==
    [s EXCEPT !.jobs[j] = [state |-> IF Len(@.todo) <= 1 THEN "done" ELSE "running",
                           todo  |-> Tail(@.todo)]]

\* the trigger of job j fires: the job reads its users and starts its loop
StartJob(j, users) ==
    /\ sched.jobs[j].state = "waiting"
    /\ sched.clock = JobMinute[j]
    /\ sched' = [sched EXCEPT
                    !.jobs[j] = [state |-> "running", todo |-> users],
                    !.unfinished = IF j = "generate"
                                   THEN {k \in Jobs \ {"generate"} : sched.jobs[k].state # "done"}
                                   ELSE @]
    /\ UNCHANGED <<today, oura_vars, polar_vars, debt>>

\* a quarter of an hour goes by, every job due by now having been fired
Tick ==
    /\ sched.clock < LAST_MINUTE
    /\ \A j \in Jobs : JobMinute[j] <= sched.clock => sched.jobs[j].state # "waiting"
    /\ sched' = [sched EXCEPT !.clock = @ + QUARTER_MINUTES]
    /\ UNCHANGED <<today, oura_vars, polar_vars, debt>>

\* sync_polar_data_job does its next user: sync_user_exercises(user.id, days=2),
\* the vendor holding held for the user
PolarJobStep(held) ==
    /\ sched.jobs["polar"].state = "running"
    /\ LET user_id == Head(sched.jobs["polar"].todo)
           dates   == DatesOf(FetchTrainingData(held, TRUE, PolarStartDate(today, 2),
                                                PolarEndDate(today)))
       IN  \E o \in Orders(dates) :
           \E p \in {ExercisePass(PolarTables, user_id, 2, FALSE, TRUE, held, o, {},
                                  today)} :
                /\ polar_exercises' = p.tables.exercises
                /\ daily_training_summary' = p.tables.summaries
                /\ weekly_training_summary' = p.tables.weekly
                /\ plast' = p.rec
    /\ sched' = Advanced(sched, "polar")
    /\ UNCHANGED <<today, oura_vars, debt>>

\* calculate_metrics_job does its next user
MetricsJobStep ==
    /\ sched.jobs["metrics"].state = "running"
    /\ \E res \in {MetricsLoop(polar_exercises, daily_training_summary, weekly_training_summary,
                               <<Head(sched.jobs["metrics"].todo)>>, {}, today, today)} :
        /\ daily_training_summary' = res.summaries
        /\ weekly_training_summary' = res.weekly
        /\ plast' = [NoPolarPass EXCEPT !.op = "metrics", !.status = "ok",
                                        !.summarised = res.summarised,
                                        !.weeks = res.weeks,
                                        !.generated = res.generated,
                                        !.before = PolarTables]
    /\ sched' = Advanced(sched, "metrics")
    /\ UNCHANGED <<today, oura_vars, debt, polar_exercises>>

\* sync_oura_data_job does its next user: sync_user_data(user.id, days=3,
\* force=True), the vendor holding held for the user
OuraJobStep(held) ==
    /\ sched.jobs["oura"].state = "running"
    /\ LET user_id == Head(sched.jobs["oura"].todo)
       IN  \E p \in {PassOf(Tables, user_id, [days |-> 3, force |-> TRUE, force_today |-> FALSE,
                                             force_recent_days |-> 0],
                            AuthRow(TRUE, None, FALSE), TRUE, held, {}, today)} :
                /\ oura_sleep' = p.r.tables.sleep
                /\ oura_daily_sleep' = p.r.tables.daily_sleep
                /\ oura_daily_readiness' = p.r.tables.readiness
                /\ prev' = Tables
                /\ last' = PassRecord(p.r, user_id, [days |-> 3, force |-> TRUE,
                                                     force_today |-> FALSE,
                                                     force_recent_days |-> 0],
                                      p.data, FALSE, p.obs)
    /\ sched' = Advanced(sched, "oura")
    /\ UNCHANGED <<today, grouped, batch, inflight, polar_vars, debt>>

\* generate_ai_recommendations_job does its next user:
\* generate_daily_recommendation(user.id, today, force_update=True)
GenerateJobStep ==
    /\ sched.jobs["generate"].state = "running"
    /\ plast' = [NoPolarPass EXCEPT !.op = "generate", !.status = "ok",
                                    !.generated = {<<Head(sched.jobs["generate"].todo), today>>},
                                    !.before = PolarTables]
    /\ sched' = Advanced(sched, "generate")
    /\ UNCHANGED <<today, oura_vars, debt, polar_exercises, daily_training_summary,
                   weekly_training_summary>>

\* ------------------------------------------------------------------ vendor data

\* get_all_daily_data(access_token, start_date, end_date): the answers the vendor
\* can give out of the records D (sleep details), S (daily sleep), R (readiness),
\* at most MaxRecs records in all
Answers(D, S, R, start_date, end_date) ==
    LET ok(X) == {x \in X : InRange(x, start_date, end_date)}
    IN  UNION {UNION {UNION {
            {[sleep |-> s, sleep_details |-> d, readiness |-> r] :
                s \in [1..ks -> ok(S)], d \in [1..kd -> ok(D)], r \in [1..kr -> ok(R)]} :
            kr \in 0..(MaxRecs - ks - kd)} : kd \in 0..(MaxRecs - ks)} : ks \in 0..MaxRecs}

\* what the vendor can hold of the records D, S, R, whatever their day, at most
\* MaxRecs records in all
Held(D, S, R) ==
    UNION {UNION {UNION {
        {[sleep |-> s, sleep_details |-> d, readiness |-> r] :
            s \in [1..ks -> S], d \in [1..kd -> D], r \in [1..kr -> R]} :
        kr \in 0..(MaxRecs - ks - kd)} : kd \in 0..(MaxRecs - ks)} : ks \in 0..MaxRecs}

\* the refresh policies: none, Full, TodayOnly, RecentWindow(n)
NoForce      == [days |-> 2, force |-> FALSE, force_today |-> FALSE, force_recent_days |-> 0]
Full         == [days |-> 2, force |-> TRUE, force_today |-> FALSE, force_recent_days |-> 0]
TodayOnly    == [days |-> 2, force |-> FALSE, force_today |-> TRUE, force_recent_days |-> 0]
RecentWindow(n) == [days |-> 2, force |-> FALSE, force_today |-> FALSE, force_recent_days |-> n]
Policies     == {NoForce, Full, TodayOnly, RecentWindow(1), RecentWindow(2)}

\* the pass of the 11:30 job: three days, everything overwritten
Scheduled    == [days |-> 3, force |-> TRUE, force_today |-> FALSE, force_recent_days |-> 0]

\* vendor timestamps of a segment that ended on the Hong Kong day d: at 07:00
\* "+08:00", at 00:30 "+08:00", and at 00:30 Hong Kong time written in UTC ("Z"),
\* which is 16:30 of the day before
At0700HK(d) == <<d * MinutesPerDay + 420, HK_OFFSET>>
At0030HK(d) == <<d * MinutesPerDay + 30, HK_OFFSET>>
At0030HKinUTC(d) == <<(d - 1) * MinutesPerDay + 990, 0>>

\* the records the vendor can hold for the policy runs on day t: last night's
\* long sleep (labelled yesterday), a nap that ended today at 00:30 and that the
\* vendor labels yesterday, yesterday's daily score and today's readiness, each
\* in two versions
DetailsP(t) ==
    [id : {"s1"}, day : {t - 1}, type : {"long_sleep"}, bedtime_end : {<<>>},
     total_sleep_duration : {300, 900}, sleep_score_delta : {Missing}, readiness : {None}]
    \cup
    [id : {"s2"}, day : {t - 1}, type : {"sleep"}, bedtime_end : {At0030HK(t)},
     total_sleep_duration : {300}, sleep_score_delta : {1, 2}, readiness : {None}]

SummariesP(t) ==
    [id : {"d0"}, day : {t - 1}, score : {80, 85}, contributors : {Missing}]

ReadinessP(t) ==
    [id : {"r1"}, day : {t}, score : {70, 75}]

\* the records for the runs of two users on day t: one night, one daily score and
\* one readiness record of today
DetailsU(t) ==
    [id : {"s1"}, day : {t}, type : {"long_sleep"}, bedtime_end : {<<>>},
     total_sleep_duration : {300, 900}, sleep_score_delta : {Missing}, readiness : {None}]

SummariesU(t) ==
    [id : {"d1"}, day : {t}, score : {80, 85}, contributors : {Missing}]

ReadinessU(t) ==
    [id : {"r1"}, day : {t}, score : {70}]

\* the records for the reads of the grouped sleep of day t: the night, without
\* and with a score delta of its own, a nap with a delta of 1 or 2, and the
\* day's score in two versions
DetailsB(t) ==
    [id : {"s1"}, day : {t}, type : {"long_sleep"}, bedtime_end : {<<>>},
     total_sleep_duration : {900}, sleep_score_delta : {Missing, 2}, readiness : {None}]
    \cup
    [id : {"s2"}, day : {t}, type : {"sleep"}, bedtime_end : {<<>>},
     total_sleep_duration : {300}, sleep_score_delta : {1, 2}, readiness : {None}]

SummariesB(t) ==
    [id : {"d1"}, day : {t}, score : {80, 85}, contributors : {Missing}]

\* the records for the runs over the segments of day t: the night in two
\* lengths, a nap of 4 or 5 minutes with a delta of 1 or 2, and the day's score
\* in three versions
DetailsG(t) ==
    [id : {"s1"}, day : {t}, type : {"long_sleep"}, bedtime_end : {<<>>},
     total_sleep_duration : {300, 900}, sleep_score_delta : {Missing}, readiness : {None}]
    \cup
    [id : {"s2"}, day : {t}, type : {"sleep"}, bedtime_end : {<<>>},
     total_sleep_duration : {240}, sleep_score_delta : {1}, readiness : {None}]
    \cup
    [id : {"s2"}, day : {t}, type : {"sleep"}, bedtime_end : {<<>>},
     total_sleep_duration : {300}, sleep_score_delta : {1, 2}, readiness : {None}]

SummariesG(t) ==
    [id : {"d1"}, day : {t}, score : {80, 82, 85}, contributors : {Missing}]

\* the records for the runs over the day of a segment: one segment that the
\* vendor labels yesterday or today, without an end, or ending today at 07:00 or
\* at 00:30 Hong Kong time (written with "+08:00" or with "Z"), or yesterday at 07:00
DetailsD(t) ==
    [id : {"s1"}, day : {t - 1, t}, type : {"long_sleep"},
     bedtime_end : {<<>>, At0700HK(t), At0030HK(t), At0030HKinUTC(t), At0700HK(t - 1)},
     total_sleep_duration : {300}, sleep_score_delta : {Missing}, readiness : {None}]

\* the records for the runs over the fetch on day t: a night, a daily score and
\* a readiness record of today, and a night and a daily score of two days ago
DetailsF(t) ==
    [id : {"s1"}, day : {t}, type : {"long_sleep"}, bedtime_end : {<<>>},
     total_sleep_duration : {900}, sleep_score_delta : {Missing}, readiness : {None}]
    \cup
    [id : {"s0"}, day : {t - 2}, type : {"long_sleep"}, bedtime_end : {<<>>},
     total_sleep_duration : {900}, sleep_score_delta : {Missing}, readiness : {None}]

SummariesF(t) ==
    [id : {"d1"}, day : {t}, score : {80, 85}, contributors : {Missing}]
    \cup
    [id : {"d0"}, day : {t - 2}, score : {80}, contributors : {Missing}]

ReadinessF(t) ==
    [id : {"r1"}, day : {t}, score : {70}]

\* the requests of a fetch that fail: none, one of them, all of them
Failures == {{}} \cup {{k} : k \in Streams} \cup {Streams}

\* an auth row whose token needs no refresh
ValidAuth == AuthRow(TRUE, None, FALSE)

\* the records for the runs over a malformed record on day t: a night, a daily
\* score and a readiness record of today, and a segment and a readiness record
\* whose day is not a date
DetailsM(t) ==
    [id : {"s1"}, day : {t}, type : {"long_sleep"}, bedtime_end : {<<>>},
     total_sleep_duration : {900}, sleep_score_delta : {Missing}, readiness : {None}]
    \cup
    [id : {"s9"}, day : {BadDay}, type : {"sleep"}, bedtime_end : {<<>>},
     total_sleep_duration : {300}, sleep_score_delta : {Missing}, readiness : {None}]

SummariesM(t) ==
    [id : {"d1"}, day : {t}, score : {80, 85}, contributors : {Missing}]

ReadinessM(t) ==
    [id : {"r1"}, day : {t}, score : {70}]
    \cup
    [id : {"r9"}, day : {BadDay}, score : {70}]

\* the records for the runs that fetch again on day t: a night with or without
\* its duration, a nap, the day's score and a readiness record
DetailsR(t) ==
    [id : {"s1"}, day : {t}, type : {"long_sleep"}, bedtime_end : {<<>>},
     total_sleep_duration : {Missing, 900}, sleep_score_delta : {Missing}, readiness : {None}]
    \cup
    [id : {"s2"}, day : {t}, type : {"sleep"}, bedtime_end : {<<>>},
     total_sleep_duration : {300}, sleep_score_delta : {1}, readiness : {None}]

SummariesR(t) ==
    [id : {"d1"}, day : {t}, score : {80, 85}, contributors : {Missing}]

ReadinessR(t) ==
    [id : {"r1"}, day : {t}, score : {70, 75}]

\* the records for the runs of the job on day t: a night and a readiness record
\* of today, and a segment whose day is not a date
DetailsJ(t) ==
    [id : {"s1"}, day : {t}, type : {"long_sleep"}, bedtime_end : {<<>>},
     total_sleep_duration : {900}, sleep_score_delta : {Missing}, readiness : {None}]
    \cup
    [id : {"s9"}, day : {BadDay}, type : {"sleep"}, bedtime_end : {<<>>},
     total_sleep_duration : {300}, sleep_score_delta : {Missing}, readiness : {None}]

ReadinessJ(t) ==
    [id : {"r1"}, day : {t}, score : {70}]

\* the training sessions the vendor can hold on day t: one of yesterday, of
\* half an hour or an hour, and one of today
SessionsT(t) ==
    [external_id : {"e1"}, day : {t - 1}, duration_sec : {1800, 3600}, zone1_sec : {0},
     zone2_sec : {0}, zone3_sec : {0}, zone4_sec : {0}, zone5_sec : {0}, cardio_load : {None}]
    \cup
    [external_id : {"e2"}, day : {t}, duration_sec : {1800}, zone1_sec : {0},
     zone2_sec : {0}, zone3_sec : {0}, zone4_sec : {0}, zone5_sec : {0}, cardio_load : {None}]

\* the training sessions of three days running, each with ten minutes in zone
\* 4; the one of yesterday has half an hour or three quarters in zone 2
SessionsH(t) ==
    [external_id : {"e0"}, day : {t - 2}, duration_sec : {1800}, zone1_sec : {0},
     zone2_sec : {0}, zone3_sec : {0}, zone4_sec : {600}, zone5_sec : {0}, cardio_load : {None}]
    \cup
    [external_id : {"e1"}, day : {t - 1}, duration_sec : {3600}, zone1_sec : {0},
     zone2_sec : {1800, 2700}, zone3_sec : {0}, zone4_sec : {600}, zone5_sec : {0},
     cardio_load : {None}]
    \cup
    [external_id : {"e2"}, day : {t}, duration_sec : {1800}, zone1_sec : {0},
     zone2_sec : {0}, zone3_sec : {0}, zone4_sec : {600}, zone5_sec : {0}, cardio_load : {None}]

\* the training sessions around a week's end, day t being a Monday: one of
\* the Sunday, of half an hour or an hour, and two of the Monday
SessionsW(t) ==
    [external_id : {"e1"}, day : {t - 1}, duration_sec : {1800, 3600}, zone1_sec : {0},
     zone2_sec : {1800}, zone3_sec : {0}, zone4_sec : {0}, zone5_sec : {0}, cardio_load : {None}]
    \cup
    [external_id : {"e2", "e3"}, day : {t}, duration_sec : {1800}, zone1_sec : {0},
     zone2_sec : {600}, zone3_sec : {0}, zone4_sec : {0}, zone5_sec : {0}, cardio_load : {None}]

\* what the vendor holds of them, at most MaxRecs sessions
HeldSessions(E) == UNION {[1..n -> E] : n \in 0..MaxRecs}

\* the records for the passes that overlap on day t: a night in two lengths and
\* the day's score
DetailsC(t) ==
    [id : {"s1"}, day : {t}, type : {"long_sleep"}, bedtime_end : {<<>>},
     total_sleep_duration : {300, 900}, sleep_score_delta : {Missing}, readiness : {None}]

SummariesC(t) ==
    [id : {"d1"}, day : {t}, score : {80}, contributors : {Missing}]

\* the records for the runs where the daily score is missing on day t: a night
\* in two lengths, with or without a readiness score of its own, and the day's
\* score with its contributors
DetailsS(t) ==
    [id : {"s1"}, day : {t}, type : {"long_sleep"}, bedtime_end : {<<>>},
     total_sleep_duration : {300, 900}, sleep_score_delta : {Missing}, readiness : {None, 70}]

SummariesS(t) ==
    [id : {"d1"}, day : {t}, score : {80, 85}, contributors : {90}]

\* a stored segment of the user that ends on day d: the night's long sleep, or
\* another segment of the day
HistoryRow(user_id, d, type, secs) ==
    [user_id |-> user_id,
     oura_id |-> type \o ToString(d) \o user_id,
     day |-> d,
     bedtime_end |-> <<>>,
     total_sleep_duration |-> secs,
     sleep_score |-> None,
     contributor_total_sleep |-> None,
     sleep_type |-> type,
     readiness_score_embedded |-> None,
     sleep_score_delta |-> None]

\* what the table holds on day t after months of passes: for u1 a night of
\* secs seconds on each of the last recent days and on older days from two
\* weeks back, a night of two hours and one whose duration never came within
\* the 90 days, a night 90 days back, and on day t, besides the night, nothing
\* more, a nap of half an hour, or a second sleep of three hours; for u2 a
\* night on day t
SleepHistory(t, recent, older, extra, secs) ==
    [i \in 1..older |-> HistoryRow("u1", t - DEBT_WINDOW_DAYS - (older - i), "long_sleep", secs)]
    \o <<HistoryRow("u1", t - BASELINE_WINDOW_DAYS, "long_sleep", secs),
         HistoryRow("u1", t - (BASELINE_WINDOW_DAYS - 1), "long_sleep", 7200),
         HistoryRow("u1", t - (BASELINE_WINDOW_DAYS - 2), "long_sleep", None),
         HistoryRow("u2", t, "long_sleep", secs)>>
    \o [i \in 1..recent |-> HistoryRow("u1", t - (recent - i), "long_sleep", secs)]
    \o (IF extra = "nap" THEN <<HistoryRow("u1", t, "sleep", 1800)>>
        ELSE IF extra = "second" THEN <<HistoryRow("u1", t, "sleep", BASELINE_MIN_SEC)>>
        ELSE <<>>)

\* the histories of the runs of the debt estimate: 4, 5 or 14 nights in the
\* last two weeks, 28 to 30 nights of 3 to 12 hours in the 90 days
RecentNights == {4, 5, 14}
QualifyingTotals == {28, 29, 30}
NightSecs == {25200, 27000, 28800}
Extras == {"none", "nap", "second"}

\* the records of the runs of the daily schedule on day t: one session of
\* yesterday and one night
SessionsQ(t) ==
    [external_id : {"e1"}, day : {t - 1}, duration_sec : {1800}, zone1_sec : {0},
     zone2_sec : {1800}, zone3_sec : {0}, zone4_sec : {0}, zone5_sec : {0}, cardio_load : {None}]

DetailsQ(t) ==
    [id : {"s1"}, day : {t}, type : {"long_sleep"}, bedtime_end : {<<>>},
     total_sleep_duration : {900}, sleep_score_delta : {Missing}, readiness : {None}]

\* the jobs that synchronise Oura data, each with the arguments it passes to
\* sync_user_data: the 15-minute poll (days=2, force_recent_days=2) and the
\* 11:30 job (days=3, force=True).  A run of a job goes through its users one
\* after the other, and nothing keeps the two jobs apart.
OuraJobs == [poll |-> RecentWindow(2), scheduled |-> Scheduled]

\* the minutes until the token expires: 10 minutes ago, now, in 2 minutes, in an hour
ExpiresIn == {-10, 0, 2, 60}

\* the auth rows a pass can find: none, or one with a token, with or without an
\* expiry and a refresh token
AuthRows ==
    {AuthRow(FALSE, None, FALSE)}
    \cup {AuthRow(TRUE, e, rt) : e \in ExpiresIn \cup {None}, rt \in BOOLEAN}

\* ------------------------------------------------------------------ actions

Init ==
    /\ today = 0
    /\ oura_sleep = <<>>
    /\ oura_daily_sleep = <<>>
    /\ oura_daily_readiness = <<>>
    /\ prev = NoTables
    /\ last = NoPass
    /\ grouped = <<>>
    /\ batch = <<>>
    /\ inflight = <<>>
    /\ polar_exercises = <<>>
    /\ daily_training_summary = <<>>
    /\ weekly_training_summary = <<>>
    /\ plast = NoPolarPass
    /\ debt = NoDebt
    /\ sched = NoSched

Idle ==
    /\ last.status = "none"
    /\ grouped = <<>>
    /\ batch = <<>>
    /\ inflight = <<>>
    /\ plast.status = "none"
    /\ ~debt.asked

\* a pass for one of the users U under one of the policies A, the vendor
\* answering out of the records D, S, R
SyncOf(U, A, D, S, R) ==
    /\ Idle
    /\ \E user_id \in U, a \in A :
        \/ SyncUserData(user_id, a, FALSE, NoData)
        \/ \E data \in Answers(D, S, R, StartDate(today, a.days), EndDate(today)) :
                SyncUserData(user_id, a, TRUE, data)

\* the same pass once more, the vendor's answer being the same
SyncAgain ==
    /\ last.status = "ok"
    /\ ~last.repeat
    /\ SyncUserData(last.user_id, last.args, TRUE, last.data)

\* GET /sleep/grouped?days=7
GetGroupedSleepData ==
    /\ Idle
    /\ \E user_id \in Users :
        grouped' = GroupedSleepData(oura_sleep, user_id, 7, today)
    /\ UNCHANGED <<today, oura_sleep, oura_daily_sleep, oura_daily_readiness, prev, last,
                   batch, inflight, polar_vars, debt, sched>>

\* the caller is done with the result
Finish ==
    /\ ~Idle
    /\ last' = NoPass
    /\ prev' = NoTables
    /\ grouped' = <<>>
    /\ batch' = <<>>
    /\ plast' = NoPolarPass
    /\ debt' = NoDebt
    /\ UNCHANGED <<today, oura_sleep, oura_daily_sleep, oura_daily_readiness, inflight,
                   polar_exercises, daily_training_summary, weekly_training_summary, sched>>

\* passes under every policy over one night, one daily score, one readiness record
Sync == SyncOf({"u1"}, Policies, DetailsP(today), SummariesP(today), ReadinessP(today))

Next == Sync \/ Finish

Spec == Init /\ [][Next]_vars

\* passes of two users, with and without force, each possibly run twice
SyncUsers == SyncOf(Users, {NoForce, Full}, DetailsU(today), SummariesU(today), ReadinessU(today))

NextUsers == SyncUsers \/ SyncAgain \/ Finish

SpecUsers == Init /\ [][NextUsers]_vars

\* passes under every policy over the segments and the score of one day
SyncSegments == SyncOf({"u1"}, Policies, DetailsG(today), SummariesG(today), {})

NextSegments == SyncSegments \/ Finish

SpecSegments == Init /\ [][NextSegments]_vars

\* passes, with and without force, and reads of the grouped sleep
SyncGrouped == SyncOf({"u1"}, {NoForce, Full}, DetailsB(today), SummariesB(today), {})

NextGrouped == SyncGrouped \/ GetGroupedSleepData \/ Finish

SpecGrouped == Init /\ [][NextGrouped]_vars

\* passes, with and without force, over one segment whose end and label vary
SyncDay == SyncOf({"u1"}, {NoForce, Full}, DetailsD(today), {}, {})

NextDay == SyncDay \/ Finish

SpecDay == Init /\ [][NextDay]_vars

\* passes of two and of three days over what the vendor holds, each request of
\* the fetch failing or not
SyncFetch ==
    /\ Idle
    /\ \E a \in {NoForce, Scheduled}, failed \in Failures,
          held \in Held(DetailsF(today), SummariesF(today), ReadinessF(today)) :
            SyncUserDataWith("u1", a, ValidAuth, TRUE, held, failed)

NextFetch == SyncFetch \/ Finish

SpecFetch == Init /\ [][NextFetch]_vars

\* passes, with and without force, from every auth row, a refresh of the token
\* going through or not
SyncToken ==
    /\ Idle
    /\ \E a \in {NoForce, Full}, auth \in AuthRows, refresh_ok \in BOOLEAN,
          held \in Held(DetailsU(today), SummariesU(today), ReadinessU(today)) :
            SyncUserDataWith("u1", a, auth, refresh_ok, held, {})

NextToken == SyncToken \/ Finish

SpecToken == Init /\ [][NextToken]_vars

\* passes, with and without force, over records one of which can be malformed
SyncMalformed ==
    SyncOf({"u1"}, {NoForce, Full}, DetailsM(today), SummariesM(today), ReadinessM(today))

NextMalformed == SyncMalformed \/ Finish

SpecMalformed == Init /\ [][NextMalformed]_vars

\* passes, with and without force, that fetch the same few records again
SyncRefetch ==
    SyncOf({"u1"}, {NoForce, Full}, DetailsR(today), SummariesR(today), ReadinessR(today))

NextRefetch == SyncRefetch \/ Finish

SpecRefetch == Init /\ [][NextRefetch]_vars

\* runs of the 11:30 job over two users, each with or without a token, the
\* vendor holding a few records for each
SyncOuraDataJob ==
    /\ Idle
    /\ \E users \in ActiveUsers :
       \E inputs \in [Users -> [auth : {ValidAuth, AuthRow(FALSE, None, FALSE)},
                                held : Held(DetailsJ(today), {}, ReadinessJ(today))]] :
            SyncOuraDataJobOf(users, inputs)

NextJob == SyncOuraDataJob \/ Finish

SpecJob == Init /\ [][NextJob]_vars

\* Polar passes of two days, with and without force
SyncPolar ==
    /\ Idle
    /\ \E force \in BOOLEAN, token_ok \in BOOLEAN, held \in HeldSessions(SessionsT(today)) :
       \E fails \in SUBSET {today - 1, today} :
       \E dates \in Orders({today - 1, today}) \cup Orders({today - 1}) \cup Orders({today})
                        \cup {<<>>} :
            SyncUserExercises("u1", 2, force, token_ok, held, dates, fails)

\* the 11:15 job
CalculateMetrics ==
    /\ Idle
    /\ \E users \in ActiveUsers, fails \in SUBSET Users :
            CalculateMetricsJob(users, fails, today)

\* the 11:45 job
GenerateAiRecommendations ==
    /\ Idle
    /\ \E users \in ActiveUsers : GenerateAiRecommendationsJob(users)

\* Oura passes of the 11:30 kind over records one of which can be malformed
SyncCommit ==
    SyncOf({"u1"}, {Scheduled}, DetailsJ(today), {}, ReadinessJ(today))

NextPolar == SyncPolar \/ CalculateMetrics \/ GenerateAiRecommendations \/ SyncCommit \/ Finish

SpecPolar == Init /\ [][NextPolar]_vars

\* a pass of the poll job or of the 11:30 job starts, whether or not the other
\* job has a pass under way
BeginPass ==
    /\ last.status = "none"
    /\ \E job \in DOMAIN OuraJobs :
        /\ \A k \in 1..Len(inflight) : inflight[k].job # job
        /\ \E data \in Answers(DetailsC(today), SummariesC(today), {},
                                StartDate(today, OuraJobs[job].days), EndDate(today)) :
                BeginSyncUserData(job, "u1", OuraJobs[job], data)

\* one of the passes under way commits
CommitPass ==
    /\ last.status = "none"
    /\ \E i \in 1..Len(inflight) : CommitSyncUserData(i)

NextOverlap == BeginPass \/ CommitPass \/ Finish

SpecOverlap == Init /\ [][NextOverlap]_vars

\* passes, with and without force, the request for the daily scores failing or
\* not
SyncSibling ==
    /\ Idle
    /\ \E a \in {NoForce, Full}, failed \in {{}, {"sleep"}},
          held \in Held(DetailsS(today), SummariesS(today), {}) :
            SyncUserDataWith("u1", a, ValidAuth, TRUE, held, failed)

NextSibling == SyncSibling \/ Finish

SpecSibling == Init /\ [][NextSibling]_vars

\* Polar passes of three days, with and without force, no summary raising
SyncTraining ==
    /\ Idle
    /\ \E force \in BOOLEAN, held \in HeldSessions(SessionsH(today)) :
       \E dates \in Orders(DatesOf(held)) :
            SyncUserExercises("u1", 3, force, TRUE, held, dates, {})

\* POST /training/recalculate?days=3
Recalculate ==
    /\ Idle
    /\ RecalculateMetrics("u1", 3, {})

NextTraining == SyncTraining \/ Recalculate \/ Finish

SpecTraining == Init /\ [][NextTraining]_vars

\* the date on the server's own clock, which is not set to Hong Kong time:
\* today's, or yesterday's in the hours the server is behind
ServerDates(t) == {t - 1, t}

\* Polar passes of two days around the week's end, with and without force
SyncWeekly ==
    /\ Idle
    /\ \E force \in BOOLEAN, held \in HeldSessions(SessionsW(today)) :
       \E dates \in Orders(DatesOf(held)) :
            SyncUserExercises("u1", 2, force, TRUE, held, dates, {})

\* POST /polar/sync?days=2
SyncApi ==
    /\ Idle
    /\ \E held \in HeldSessions(SessionsW(today)), server_today \in ServerDates(today) :
       \E dates \in Orders(DatesOf(held)) :
            SyncPolarData("u1", 2, FALSE, TRUE, held, dates, {}, server_today)

\* POST /training/recalculate?days=2
RecalculateWeek ==
    /\ Idle
    /\ RecalculateMetrics("u1", 2, {})

\* the 11:15 job, no computation raising
CalculateMetricsWeek ==
    /\ Idle
    /\ \E users \in ActiveUsers : CalculateMetricsJob(users, {}, today)

\* the state after months of passes, for the runs of the debt estimate
InitDebt ==
    /\ today = 0
    /\ \E recent \in RecentNights, total \in QualifyingTotals, extra \in Extras,
          secs \in NightSecs :
            oura_sleep = SleepHistory(today, recent, total - recent, extra, secs)
    /\ oura_daily_sleep = <<>>
    /\ oura_daily_readiness = <<>>
    /\ prev = NoTables
    /\ last = NoPass
    /\ grouped = <<>>
    /\ batch = <<>>
    /\ inflight = <<>>
    /\ polar_exercises = <<>>
    /\ daily_training_summary = <<>>
    /\ weekly_training_summary = <<>>
    /\ plast = NoPolarPass
    /\ debt = NoDebt
    /\ sched = NoSched

\* calculate_sleep_debt for one of the users, today
SleepDebt ==
    /\ Idle
    /\ \E user_id \in Users : CalculateSleepDebtToday(user_id)

NextDebt == SleepDebt \/ Finish

SpecDebt == InitDebt /\ [][NextDebt]_vars

\* the trigger of a job fires
Fire == \E j \in Jobs, users \in ActiveUsers : StartJob(j, users)

\* a job under way does its next user
PolarStep == \E held \in HeldSessions(SessionsQ(today)) : PolarJobStep(held)

OuraStep == \E held \in Held(DetailsQ(today), {}, {}) : OuraJobStep(held)

NextSched == Fire \/ Tick \/ PolarStep \/ MetricsJobStep \/ OuraStep \/ GenerateJobStep

SpecSched == Init /\ [][NextSched]_vars

NextWeekly == SyncWeekly \/ SyncApi \/ RecalculateWeek \/ CalculateMetricsWeek \/ Finish

SpecWeekly == Init /\ [][NextWeekly]_vars

\* ------------------------------------------------------------------ claims

Has(tbl, id) == Matching(tbl, id) # {}

RowOf(tbl, id) == tbl[CHOOSE k \in Matching(tbl, id) : TRUE]

PassOk == last.status = "ok"

\* the policy of the pass covers day d: Full always, TodayOnly today,
\* RecentWindow(n) the last n days
Covers(a, d, t) ==
    \/ a.force
    \/ (a.force_today /\ d = t)
    \/ (a.force_recent_days > 0 /\ d # None /\ d >= t - a.force_recent_days + 1)

\* the records of a stream of the last pass that carry the id
RecordsOf(stream, id) == {stream[k] : k \in {j \in 1..Len(stream) : stream[j].id = id}}

\* the ids of a stream of the last pass
IdsOf(stream) == {stream[k].id : k \in 1..Len(stream)} \ {NoId}

\* C3: a vendor record whose external id has no stored row is inserted by a pass
\* that completes, under every policy: afterwards the row is stored, owned by the
\* user of the pass and built from the record.
C3_InsertionPolicyIndependent ==
    PassOk =>
        /\ \A id \in IdsOf(last.data.sleep_details) : ~Has(prev.sleep, id) =>
            /\ Has(oura_sleep, id)
            /\ \E d \in RecordsOf(last.data.sleep_details, id) :
                RowOf(oura_sleep, id) =
                    NewSleepRow(last.user_id, d, SummaryOf(last.data.sleep, d), today)
        /\ \A id \in IdsOf(last.data.sleep) : ~Has(prev.daily_sleep, id) =>
            /\ Has(oura_daily_sleep, id)
            /\ \E d \in RecordsOf(last.data.sleep, id) :
                RowOf(oura_daily_sleep, id) = NewDailySleepRow(last.user_id, d, today)
        /\ \A id \in IdsOf(last.data.readiness) : ~Has(prev.readiness, id) =>
            /\ Has(oura_daily_readiness, id)
            /\ \E d \in RecordsOf(last.data.readiness, id) :
                RowOf(oura_daily_readiness, id) = NewReadinessRow(last.user_id, d, today)

\* a TodayOnly pass inserted a record that is not dated today
C3_Witness ==
    /\ PassOk
    /\ last.args = TodayOnly
    /\ \E id \in IdsOf(last.data.sleep) :
        /\ ~Has(prev.daily_sleep, id)
        /\ Has(oura_daily_sleep, id)
        /\ RowOf(oura_daily_sleep, id).day # today

\* the stored row and a vendor record of its segment differ as the change
\* detection of the sleep stream sees it: the stored duration is null, or the
\* durations (both non-zero) are 5 minutes or more apart, or the scores (of a
\* primary segment: the daily summary's score; of a nap: its score delta) differ
SegmentDiffers(row, d, summary) ==
    \/ row.total_sleep_duration = None
    \/ /\ Truthy(d.total_sleep_duration)
       /\ Truthy(row.total_sleep_duration)
       /\ (d.total_sleep_duration - row.total_sleep_duration >= 300
            \/ row.total_sleep_duration - d.total_sleep_duration >= 300)
    \/ /\ d.type = "long_sleep"
       /\ Truthy(summary.score)
       /\ Truthy(row.sleep_score)
       /\ summary.score # row.sleep_score
    \/ /\ d.type # "long_sleep"
       /\ Get(d.sleep_score_delta) # None
       /\ row.sleep_score_delta # None
       /\ d.sleep_score_delta # row.sleep_score_delta

\* the rows of prev that the pass did not write are as they were
OthersUnchanged(before, now, written) ==
    /\ Len(now) >= Len(before)
    /\ \A k \in 1..Len(before) : before[k].oura_id \notin written => now[k] = before[k]

\* C4 as the spec states it: an existing row is overwritten exactly when the
\* policy covers the row's local day.
C4_Original ==
    PassOk =>
        /\ \A id \in IdsOf(last.data.sleep_details) : Has(prev.sleep, id) =>
            (id \in last.written.sleep
                <=> Covers(last.args, RowOf(prev.sleep, id).day, today))
        /\ \A id \in IdsOf(last.data.sleep) : Has(prev.daily_sleep, id) =>
            (id \in last.written.daily_sleep
                <=> Covers(last.args, RowOf(prev.daily_sleep, id).day, today))
        /\ \A id \in IdsOf(last.data.readiness) : Has(prev.readiness, id) =>
            (id \in last.written.readiness
                <=> Covers(last.args, RowOf(prev.readiness, id).day, today))

\* C4 (amended): a completed pass overwrites an existing row exactly when its
\* vendor data hold a record with the row's external id that the policy covers
\* by the record's vendor day, or, for a sleep segment, a record that differs
\* from the stored row (null stored duration, durations 5 minutes apart, other
\* score); every other existing row is left unchanged.
C4_OverwriteWhenCoveredOrChanged ==
    PassOk =>
        /\ \A id \in IdsOf(last.data.sleep_details) : Has(prev.sleep, id) =>
            (id \in last.written.sleep
                <=> \E d \in RecordsOf(last.data.sleep_details, id) :
                        \/ Covers(last.args, ItemDate(d.day), today)
                        \/ SegmentDiffers(RowOf(prev.sleep, id), d, SummaryOf(last.data.sleep, d)))
        /\ \A id \in IdsOf(last.data.sleep) : Has(prev.daily_sleep, id) =>
            (id \in last.written.daily_sleep
                <=> \E d \in RecordsOf(last.data.sleep, id) :
                        Covers(last.args, ItemDate(d.day), today))
        /\ \A id \in IdsOf(last.data.readiness) : Has(prev.readiness, id) =>
            (id \in last.written.readiness
                <=> \E d \in RecordsOf(last.data.readiness, id) :
                        Covers(last.args, ItemDate(d.day), today))
        /\ last.written.sleep \subseteq IdsOf(last.data.sleep_details)
        /\ last.written.daily_sleep \subseteq IdsOf(last.data.sleep)
        /\ last.written.readiness \subseteq IdsOf(last.data.readiness)
        /\ OthersUnchanged(prev.sleep, oura_sleep, last.written.sleep)
        /\ OthersUnchanged(prev.daily_sleep, oura_daily_sleep, last.written.daily_sleep)
        /\ OthersUnchanged(prev.readiness, oura_daily_readiness, last.written.readiness)

\* a RecentWindow(1) pass overwrote today's readiness row and left yesterday's
\* daily score, which the vendor also sent, as it was
C4_Witness ==
    /\ PassOk
    /\ last.args = RecentWindow(1)
    /\ \E id \in IdsOf(last.data.readiness) :
        Has(prev.readiness, id) /\ id \in last.written.readiness
    /\ \E id \in IdsOf(last.data.sleep) :
        /\ Has(prev.daily_sleep, id)
        /\ id \notin last.written.daily_sleep
        /\ RowOf(oura_daily_sleep, id) = RowOf(prev.daily_sleep, id)
        /\ \E d \in RecordsOf(last.data.sleep, id) : d.score # RowOf(prev.daily_sleep, id).score

\* C1 as the spec states it: a Full pass run a second time on the same vendor
\* answer leaves the rows as the first run left them and reports zero new ids
\* for every stream.
C1_Original ==
    (PassOk /\ last.repeat /\ last.args.force) =>
        /\ Tables = prev
        /\ last.stats = ZeroStats

\* no two rows of the table carry the same oura_id
OneRowPerId(tbl) ==
    \A i, j \in 1..Len(tbl) : tbl[i].oura_id = tbl[j].oura_id => i = j

\* C2: after any sequence of passes each table holds at most one row per
\* external id; a pass that meets a stored id again writes that row in place.
C2_OneRowPerExternalId ==
    /\ OneRowPerId(oura_sleep)
    /\ OneRowPerId(oura_daily_sleep)
    /\ OneRowPerId(oura_daily_readiness)
    /\ PassOk =>
        /\ \A id \in IdsOf(last.data.sleep_details) :
            Has(prev.sleep, id) => Matching(oura_sleep, id) = Matching(prev.sleep, id)
        /\ \A id \in IdsOf(last.data.sleep) :
            Has(prev.daily_sleep, id) =>
                Matching(oura_daily_sleep, id) = Matching(prev.daily_sleep, id)
        /\ \A id \in IdsOf(last.data.readiness) :
            Has(prev.readiness, id) =>
                Matching(oura_daily_readiness, id) = Matching(prev.readiness, id)

\* a pass of the other user met a stored segment id, sent twice in one answer,
\* and rewrote the one row that carries it
C2_Witness ==
    /\ PassOk
    /\ Len(last.data.sleep_details) = 2
    /\ last.data.sleep_details[1].id = last.data.sleep_details[2].id
    /\ \E id \in IdsOf(last.data.sleep_details) :
        /\ Has(prev.sleep, id)
        /\ RowOf(prev.sleep, id).user_id # last.user_id
        /\ id \in last.written.sleep
        /\ Cardinality(Matching(oura_sleep, id)) = 1

\* C5 as the spec states it: the day of every stored segment is the local date
\* of its end time, never the vendor's label.
C5_Original ==
    \A k \in 1..Len(oura_sleep) :
        /\ oura_sleep[k].bedtime_end # None
        /\ oura_sleep[k].day = HKDate(oura_sleep[k].bedtime_end)

\* C5 (amended): the day of a stored segment that has an end time is the Hong
\* Kong calendar date of that instant, whatever the vendor's label says; only a
\* segment without an end time is attributed to the vendor's label.
C5_DayFromEndTime ==
    /\ \A k \in 1..Len(oura_sleep) :
        oura_sleep[k].bedtime_end # None =>
            oura_sleep[k].day = (oura_sleep[k].bedtime_end + 480) \div 1440
    /\ PassOk =>
        \A id \in IdsOf(last.data.sleep_details) :
            (~Has(prev.sleep, id) \/ id \in last.written.sleep) =>
                \E d \in RecordsOf(last.data.sleep_details, id) :
                    /\ RowOf(oura_sleep, id).bedtime_end = BedtimeEnd(d)
                    /\ d.bedtime_end = <<>> => RowOf(oura_sleep, id).day = d.day

\* the vendor labelled yesterday a segment that ended at 00:30 Hong Kong time
\* today, written in UTC (16:30 of yesterday): it is stored under today
C5_Witness ==
    /\ PassOk
    /\ \E k \in 1..Len(last.data.sleep_details) :
        LET d == last.data.sleep_details[k]
        IN  /\ d.bedtime_end = At0030HKinUTC(today)
            /\ d.day = today - 1
            /\ Has(oura_sleep, d.id)
            /\ RowOf(oura_sleep, d.id).day = today
            /\ RowOf(oura_sleep, d.id).bedtime_end = today * 1440 + 30 - 480

\* the sum of the score deltas of the naps among the segments of a day
RECURSIVE NapDeltas(_, _)
NapDeltas(segments, i) ==
    IF i > Len(segments) THEN 0
    ELSE (IF segments[i].sleep_type # "long_sleep" /\ segments[i].sleep_score_delta # None
          THEN segments[i].sleep_score_delta ELSE 0)
         + NapDeltas(segments, i + 1)

\* C6 as the spec states it: for every day of the grouped sleep that has a
\* cumulative score, the base score, which the primary segment shows, is the
\* cumulative score minus the sum of the naps' deltas.
C6_Original ==
    \A n \in 1..Len(grouped) :
        LET day == grouped[n]
        IN  Truthy(day.summary_score) =>
                /\ day.base_score = day.summary_score - NapDeltas(day.segments, 1)
                /\ \A i \in 1..Len(day.segments) :
                    day.segments[i].sleep_type = "long_sleep" =>
                        day.segments[i].score = day.base_score

\* the rows a pass added to a table
Added(before, now) == {now[k] : k \in (Len(before) + 1)..Len(now)}

NothingWritten ==
    last.written.sleep = {} /\ last.written.daily_sleep = {} /\ last.written.readiness = {}

\* C7: a pass that does nothing but insert a nap of less than 300 seconds is
\* not significant; a pass that inserts a segment of 300 seconds or more is.
C7_NewSegmentThreshold ==
    PassOk =>
        /\ (/\ NothingWritten
            /\ Added(prev.daily_sleep, oura_daily_sleep) = {}
            /\ Added(prev.sleep, oura_sleep) # {}
            /\ \A r \in Added(prev.sleep, oura_sleep) :
                r.sleep_type = "sleep" /\ r.total_sleep_duration < 300)
           => ~last.sig
        /\ (\E r \in Added(prev.sleep, oura_sleep) :
                r.total_sleep_duration # None /\ r.total_sleep_duration >= 300)
           => last.sig

\* a pass inserted a nap of 4 minutes, nothing else, and was not significant
C7_Witness ==
    /\ PassOk
    /\ NothingWritten
    /\ Added(prev.daily_sleep, oura_daily_sleep) = {}
    /\ \E r \in Added(prev.sleep, oura_sleep) :
        r.sleep_type = "sleep" /\ r.total_sleep_duration = 240
    /\ Cardinality(Added(prev.sleep, oura_sleep)) = 1
    /\ ~last.sig

\* the vendor's duration of a stored segment is 5 minutes or more from the stored one
DurationMoved(d, row) ==
    /\ Truthy(d.total_sleep_duration)
    /\ Truthy(row.total_sleep_duration)
    /\ (d.total_sleep_duration - row.total_sleep_duration >= 300
        \/ row.total_sleep_duration - d.total_sleep_duration >= 300)

\* C8 as the spec states it: under every policy a pass in which the duration of
\* an existing segment changes by at least 5 minutes is significant.
C8_Original ==
    (/\ PassOk
     /\ \E k \in 1..Len(last.data.sleep_details) :
            LET d == last.data.sleep_details[k]
            IN  Has(prev.sleep, d.id) /\ DurationMoved(d, RowOf(prev.sleep, d.id)))
    => last.sig

\* (a) a new segment of at least 5 minutes was inserted
NewLongEnoughSegment ==
    \E r \in Added(prev.sleep, oura_sleep) :
        r.total_sleep_duration # None /\ r.total_sleep_duration >= 300

\* (b) the duration of an existing segment changed by at least 5 minutes
SegmentDurationChanged ==
    \E k \in 1..Len(last.data.sleep_details) :
        LET d == last.data.sleep_details[k]
        IN  Has(prev.sleep, d.id) /\ DurationMoved(d, RowOf(prev.sleep, d.id))

\* (c) the daily score of an existing day moved by at least 3 points, or the
\* score of an existing segment (the summary's score of a primary segment, the
\* delta of a nap) changed
ScoreMoved ==
    \/ \E k \in 1..Len(last.data.sleep) :
        LET item == last.data.sleep[k]
        IN  /\ Has(prev.daily_sleep, item.id)
            /\ Get(item.score) # None
            /\ RowOf(prev.daily_sleep, item.id).score # None
            /\ (item.score - RowOf(prev.daily_sleep, item.id).score >= 3
                \/ RowOf(prev.daily_sleep, item.id).score - item.score >= 3)
    \/ \E k \in 1..Len(last.data.sleep_details) :
        LET d == last.data.sleep_details[k]
        IN  /\ Has(prev.sleep, d.id)
            /\ IF d.type = "long_sleep"
               THEN /\ Truthy(SummaryOf(last.data.sleep, d).score)
                    /\ Truthy(RowOf(prev.sleep, d.id).sleep_score)
                    /\ SummaryOf(last.data.sleep, d).score # RowOf(prev.sleep, d.id).sleep_score
               ELSE /\ Get(d.sleep_score_delta) # None
                    /\ RowOf(prev.sleep, d.id).sleep_score_delta # None
                    /\ d.sleep_score_delta # RowOf(prev.sleep, d.id).sleep_score_delta

\* C9 as the spec states it: a pass is significant only if (a), (b) or (c).
C9_Original ==
    (PassOk /\ last.sig) => (NewLongEnoughSegment \/ SegmentDurationChanged \/ ScoreMoved)

\* C9 (amended): a pass is significant only if (a), (b) or (c) occurred in it,
\* or it inserted the daily score of a day that had none stored.
C9_SignificantOnlyIf ==
    (PassOk /\ last.sig) =>
        \/ NewLongEnoughSegment
        \/ SegmentDurationChanged
        \/ ScoreMoved
        \/ Added(prev.daily_sleep, oura_daily_sleep) # {}

\* a TodayOnly pass rewrote the stored daily score with one 2 points higher and a
\* nap's row with the same values, inserted nothing, and was not significant
C9_Witness ==
    /\ PassOk
    /\ ~last.sig
    /\ last.args = TodayOnly
    /\ last.written.sleep # {}
    /\ \E id \in last.written.daily_sleep :
        RowOf(oura_daily_sleep, id).score = RowOf(prev.daily_sleep, id).score + 2
    /\ Added(prev.sleep, oura_sleep) = {}
    /\ Added(prev.daily_sleep, oura_daily_sleep) = {}

\* C10 as the spec states it: a pass returns, with the per-stream counts, the
\* boolean that says whether the sleep change was significant.
C10_Original ==
    PassOk => "significant_change" \in last.ret_keys

\* C10 (amended): what the caller of a completed pass receives is the
\* per-stream counts and nothing else; the significance of the pass is computed
\* and logged, and is not returned.  A pass without a token returns {}.
C10_ReturnsStatsOnly ==
    /\ PassOk => last.ret_keys = {"sleep", "daily_sleep", "readiness"}
    /\ last.status = "no_token" => last.ret_keys = {}

\* a significant pass (it inserted a daily score) returned the counts alone
C10_Witness ==
    /\ PassOk
    /\ last.sig
    /\ Added(prev.daily_sleep, oura_daily_sleep) # {}
    /\ last.stats.daily_sleep = 1
    /\ "significant_change" \notin last.ret_keys

\* the table a stream is reconciled into
TableOf(tables, k) ==
    IF k = "sleep" THEN tables.daily_sleep
    ELSE IF k = "sleep_details" THEN tables.sleep
    ELSE tables.readiness

\* the record is one of the sequence
IsIn(rec, recs) == \E j \in 1..Len(recs) : recs[j] = rec

\* the records of today that the vendor held in the streams whose request went through
HeldToday(k) ==
    {last.obs.held[k][j] : j \in {i \in 1..Len(last.obs.held[k]) : last.obs.held[k][i].day = today}}

\* C12: a pass asks the vendor for [today - (days - 1), today + 1), so that a
\* record dated today that the vendor holds is in the answer of every request
\* that went through, and is stored when the pass completes.
C12_TodayIsFetched ==
    last.obs.fetched =>
        /\ last.obs.range = <<today - (last.args.days - 1), today + 1>>
        /\ \A k \in Streams \ last.obs.failed : \A rec \in HeldToday(k) :
                /\ IsIn(rec, last.data[k])
                /\ (PassOk /\ rec.id # NoId) => Has(TableOf(Tables, k), rec.id)

C12_Witness ==
    /\ PassOk
    /\ last.obs.fetched
    /\ \E rec \in HeldToday("sleep_details") :
            /\ ~Has(prev.sleep, rec.id)
            /\ Has(oura_sleep, rec.id)
    /\ \E j \in 1..Len(last.obs.held.sleep_details) :
            ~IsIn(last.obs.held.sleep_details[j], last.data.sleep_details)

\* C16: when the request of one stream fails, that stream answers nothing and
\* every other stream is fetched, reconciled and committed: the pass completes
\* and the records of the other streams are stored.
C16_FailedStreamOnly ==
    last.obs.fetched =>
        \A k \in Streams :
            IF k \in last.obs.failed
            THEN last.data[k] = <<>>
            ELSE /\ last.data[k] = InRangeOf(last.obs.held[k], last.obs.range[1], last.obs.range[2])
                 /\ PassOk => \A id \in IdsOf(last.data[k]) : Has(TableOf(Tables, k), id)

C16_Witness ==
    /\ PassOk
    /\ last.obs.failed = {"sleep"}
    /\ last.obs.held.sleep # <<>>
    /\ \E id \in IdsOf(last.data.readiness) :
            /\ ~Has(prev.readiness, id)
            /\ Has(oura_daily_readiness, id)

\* the pass found an expired token with a refresh token, and the refresh failed
RefreshFailed ==
    /\ last.status # "none"
    /\ last.obs.auth.present
    /\ last.obs.auth.expires_in # None
    /\ last.obs.auth.expires_in < 0
    /\ last.obs.auth.refresh_token
    /\ ~last.obs.refresh_ok

\* C17: a pass whose token refresh fails is skipped: it asks the vendor for
\* nothing, leaves every table as it was, and returns (an empty result) without
\* raising.
C17_RefreshFailureSkipsPass ==
    RefreshFailed =>
        /\ last.status = "no_token"
        /\ ~last.obs.fetched
        /\ last.data = NoData
        /\ Tables = prev
        /\ last.ret_keys = {}

C17_Witness ==
    /\ RefreshFailed
    /\ last.status = "no_token"
    /\ last.obs.held.sleep_details # <<>>
    /\ oura_sleep # <<>>

\* C19 (as stated): no fetch starts with a token that expires in less than 5
\* minutes without a refresh having been executed first.
C19_Original ==
    (last.obs.fetched /\ last.obs.auth.expires_in # None /\ last.obs.auth.expires_in < 5)
        => last.obs.refreshed

\* C15 (as stated): a pass over records of distinct ids, one of which fails to
\* parse, does not throw, and every other record of every stream is reconciled
\* and committed.
C15_Original ==
    (/\ last.obs.fetched
     /\ \E k \in Streams : \E j \in 1..Len(last.data[k]) : last.data[k][j].day = BadDay
     /\ \A k \in Streams : Cardinality(IdsOf(last.data[k])) = Len(last.data[k])) =>
        /\ last.status = "ok"
        /\ \A k \in Streams : \A j \in 1..Len(last.data[k]) :
                (last.data[k][j].day # BadDay /\ last.data[k][j].id # NoId)
                    => Has(TableOf(Tables, k), last.data[k][j].id)

\* the last pass ran without any force policy
WithoutForce ==
    ~last.args.force /\ ~last.args.force_today /\ last.args.force_recent_days = 0

\* every record the last pass fetched was stored already, and writing it over
\* its row would leave the row as it was
IdenticalRefetch ==
    /\ last.data # NoData
    /\ \A j \in 1..Len(last.data.sleep_details) :
            LET detail == last.data.sleep_details[j]
            IN  /\ Has(prev.sleep, detail.id)
                /\ UpdatedSleepRow(RowOf(prev.sleep, detail.id), detail,
                                   SummaryOf(last.data.sleep, detail), today)
                        = RowOf(prev.sleep, detail.id)
    /\ \A j \in 1..Len(last.data.sleep) :
            LET item == last.data.sleep[j]
            IN  /\ Has(prev.daily_sleep, item.id)
                /\ UpdatedDailySleepRow(RowOf(prev.daily_sleep, item.id), item)
                        = RowOf(prev.daily_sleep, item.id)
    /\ \A j \in 1..Len(last.data.readiness) :
            LET item == last.data.readiness[j]
            IN  /\ Has(prev.readiness, item.id)
                /\ UpdatedReadinessRow(RowOf(prev.readiness, item.id), item)
                        = RowOf(prev.readiness, item.id)

\* the fetched segments whose stored row has no duration
WithoutDuration ==
    {j \in 1..Len(last.data.sleep_details) :
        /\ Has(prev.sleep, last.data.sleep_details[j].id)
        /\ RowOf(prev.sleep, last.data.sleep_details[j].id).total_sleep_duration = None}

StoredAll(tables, data) ==
    \A k \in Streams : \A id \in IdsOf(data[k]) : Has(TableOf(tables, k), id)

\* C14: in a run of the job every active user is attempted, in order, whatever
\* happened to the users before; a pass that raised left the tables as they
\* were, and the records of each pass that completed are stored when the job
\* ends.  (sync_all_active_users, which runs the users on one shared session
\* and which nothing calls, is not part of this model.)
C14_BatchIsolation ==
    batch # <<>> =>
        /\ \E users \in ActiveUsers :
                /\ Len(batch) = Len(users)
                /\ \A i \in 1..Len(users) : batch[i].user_id = users[i]
        /\ \A i \in 1..Len(batch) :
                /\ batch[i].status = "error" => batch[i].after = batch[i].before
                /\ batch[i].status = "ok" =>
                        /\ StoredAll(batch[i].after, batch[i].data)
                        /\ StoredAll(Tables, batch[i].data)
                /\ i < Len(batch) => batch[i + 1].before = batch[i].after
        /\ batch[1].before = prev
        /\ batch[Len(batch)].after = Tables

C14_Witness ==
    /\ Len(batch) = 2
    /\ batch[1].status = "error"
    /\ batch[2].status = "ok"
    /\ \E id \in IdsOf(batch[2].data.sleep_details) :
            ~Has(prev.sleep, id) /\ Has(oura_sleep, id)

\* C11 (as stated): no sync pass and no metrics computation invokes the
\* recommendation generator.
C11_Original ==
    plast.op \in {"sync", "metrics"} => plast.generated = {}

\* the rows of daily_training_summary of the user and the day
SummaryRows(summaries, user_id, d) ==
    {summaries[k] : k \in {j \in 1..Len(summaries) :
        summaries[j].user_id = user_id /\ summaries[j].date = d}}

\* the summary of the day agrees with the stored exercises of the user
SummaryUpToDate(user_id, d) ==
    LET ks == ExercisesOn(polar_exercises, user_id, d)
    IN  /\ Cardinality(SummaryRows(daily_training_summary, user_id, d)) = 1
        /\ \A row \in SummaryRows(daily_training_summary, user_id, d) :
                /\ row.sessions_count = Cardinality(ks)
                /\ row.total_duration_min =
                        SumDuration(polar_exercises, ks) \div SecondsPerMinute

\* the days the last Polar pass set out to summarise on which the user trained
DaysToSummarise ==
    {plast.dates[k] : k \in {j \in 1..Len(plast.dates) :
        ExercisesOn(polar_exercises, plast.user_id, plast.dates[j]) # {}}}

\* an Oura pass that raised left the tables as they were and one that
\* completed stored every record it fetched
OuraAllOrNothing ==
    last.obs.fetched =>
        /\ last.status = "error" => Tables = prev
        /\ last.status = "ok" => StoredAll(Tables, last.data)

\* a Polar pass that raised left the tables as they were and one that
\* completed stored every session it fetched
ExercisesAllOrNothing ==
    plast.op = "sync" =>
        /\ plast.status = "error" => PolarTables = plast.before
        /\ plast.status = "ok" =>
                \A k \in 1..Len(plast.sessions) :
                    MatchingExercise(polar_exercises, plast.sessions[k].external_id) # {}

\* C13 (as stated): the writes of a pass, the derived summaries included, are
\* committed together: none persists when the pass fails, all persist when it
\* succeeds.
C13_Original ==
    /\ OuraAllOrNothing
    /\ ExercisesAllOrNothing
    /\ (plast.op = "sync" /\ plast.status = "ok") =>
            \A d \in DaysToSummarise : SummaryUpToDate(plast.user_id, d)

\* C13 (amended): the rows of an Oura pass are committed together, and so are
\* the exercise rows of a Polar pass.  The daily summaries of a Polar pass are
\* committed after the exercises, one day at a time: a day whose summary was
\* committed agrees with the exercises, the summaries of the other days are as
\* they were, and when no computation raised every day was committed; a
\* computation that raises does not fail the pass.
C13_CommitsPerStage ==
    /\ OuraAllOrNothing
    /\ ExercisesAllOrNothing
    /\ (plast.op = "sync" /\ plast.status = "ok") =>
            /\ \A d \in {plast.before.summaries[k].date : k \in 1..Len(plast.before.summaries)}
                        \cup {today - 1, today} :
                    IF <<plast.user_id, d>> \in plast.summarised
                    THEN SummaryUpToDate(plast.user_id, d)
                    ELSE SummaryRows(daily_training_summary, plast.user_id, d)
                            = SummaryRows(plast.before.summaries, plast.user_id, d)
            /\ ~plast.raised => \A d \in DaysToSummarise : <<plast.user_id, d>> \in plast.summarised
    /\ (plast.op = "sync" /\ plast.raised) => plast.status = "ok"

C13_Witness ==
    /\ plast.op = "sync"
    /\ plast.status = "ok"
    /\ plast.raised
    /\ plast.summarised # {}
    /\ polar_exercises # plast.before.exercises
    /\ \E d \in DaysToSummarise : ~SummaryUpToDate(plast.user_id, d)

\* C18 (as stated): a pass that overlapped with another pass of the same user,
\* its records being well formed and of distinct ids, completes without error
\* and leaves one row per external id.
C18_Original ==
    (/\ last.obs.overlapped
     /\ \A k \in Streams : Cardinality(IdsOf(last.data[k])) = Len(last.data[k])) =>
        /\ last.status = "ok"
        /\ OneRowPerId(oura_sleep)
        /\ OneRowPerId(oura_daily_sleep)
        /\ OneRowPerId(oura_daily_readiness)

\* C28 as the spec states it: when the daily scores are missing from a pass
\* whose segments were fetched, a stored primary segment that the pass updates
\* keeps the sleep score and the contributor values it had.
C28_Original ==
    (PassOk /\ last.data.sleep = <<>> /\ last.data.sleep_details # <<>>) =>
        \A id \in last.written.sleep :
            (Has(prev.sleep, id) /\ RowOf(prev.sleep, id).sleep_type = "long_sleep") =>
                /\ RowOf(oura_sleep, id).sleep_score = RowOf(prev.sleep, id).sleep_score
                /\ RowOf(oura_sleep, id).contributor_total_sleep =
                        RowOf(prev.sleep, id).contributor_total_sleep

\* the rows of the table as it was that another user than the one of the last
\* pass owns are where and as they were
OthersRowsKept(before, after, user_id) ==
    \A k \in 1..Len(before) :
        before[k].user_id # user_id => (k <= Len(after) /\ after[k] = before[k])

\* the rows the last pass added to the table are the user's
AddedRowsOwned(before, after, user_id) ==
    \A k \in (Len(before) + 1)..Len(after) : after[k].user_id = user_id

\* C29 as the spec states it: a pass of user U adds only rows owned by U and
\* changes no row that another user owns, whatever ids the vendor sends.
C29_Original ==
    PassOk =>
        /\ OthersRowsKept(prev.sleep, oura_sleep, last.user_id)
        /\ OthersRowsKept(prev.daily_sleep, oura_daily_sleep, last.user_id)
        /\ OthersRowsKept(prev.readiness, oura_daily_readiness, last.user_id)
        /\ AddedRowsOwned(prev.sleep, oura_sleep, last.user_id)
        /\ AddedRowsOwned(prev.daily_sleep, oura_daily_sleep, last.user_id)
        /\ AddedRowsOwned(prev.readiness, oura_daily_readiness, last.user_id)

\* C21 (as stated): after a completed exercise pass, with or without force, in
\* which no summary computation raised, every stored daily summary is the only
\* one of its user and date, and its total duration, zone 2 and high-intensity
\* minutes are the sums over the exercises now stored for that user and day.
C21_Original ==
    (plast.op = "sync" /\ plast.status = "ok" /\ ~plast.raised) =>
        \A k \in 1..Len(daily_training_summary) :
            LET row == daily_training_summary[k]
                ks  == ExercisesOn(polar_exercises, row.user_id, row.date)
            IN  /\ Cardinality(SummaryRows(daily_training_summary, row.user_id, row.date)) = 1
                /\ row.total_duration_min =
                        SumDuration(polar_exercises, ks) \div SecondsPerMinute
                /\ row.zone2_min =
                        SumOver(polar_exercises, ks, LAMBDA e : e.zone2_sec)
                            \div SecondsPerMinute
                /\ row.hi_min =
                        SumOver(polar_exercises, ks, LAMBDA e : e.zone4_sec + e.zone5_sec)
                            \div SecondsPerMinute

\* the user's stored summary of the day has high-intensity minutes over the
\* threshold
HighIntensityDay(summaries, user_id, d) ==
    \E row \in SummaryRows(summaries, user_id, d) : row.hi_min > HI_DAY_OVER_MIN

\* C25 (as stated): when the summary of day d is computed, and the summaries of
\* d-2 and d-1 were stored before with high-intensity minutes over the
\* threshold and are not touched, and d itself comes out over the threshold,
\* the summary of d carries the consecutive-high-intensity flag.
C25_Original ==
    \A p \in plast.summarised :
        LET user_id == p[1]
            d       == p[2]
        IN  (/\ <<user_id, d - 1>> \notin plast.summarised
             /\ <<user_id, d - 2>> \notin plast.summarised
             /\ HighIntensityDay(plast.before.summaries, user_id, d - 2)
             /\ HighIntensityDay(plast.before.summaries, user_id, d - 1)
             /\ HighIntensityDay(daily_training_summary, user_id, d))
            => \A row \in SummaryRows(daily_training_summary, user_id, d) :
                    "consecutive_high" \in row.flags

\* the user's stored weekly rows of the week that starts on w
WeeklyRows(weekly, user_id, w) ==
    {weekly[k] : k \in {j \in 1..Len(weekly) :
        weekly[j].user_id = user_id /\ weekly[j].week_start_date = w}}

\* the user has one weekly row of the week that starts on w, and its totals are
\* the sums over the stored daily summaries dated w to w + 6
WeeklyIsFold(user_id, w) ==
    LET ks == {k \in 1..Len(daily_training_summary) :
                    /\ daily_training_summary[k].user_id = user_id
                    /\ daily_training_summary[k].date >= w
                    /\ daily_training_summary[k].date <= w + 6}
    IN  /\ Cardinality(WeeklyRows(weekly_training_summary, user_id, w)) = 1
        /\ \A row \in WeeklyRows(weekly_training_summary, user_id, w) :
                /\ row.total_duration_min =
                        SumOver(daily_training_summary, ks, LAMBDA d : d.total_duration_min)
                /\ row.zone2_min = SumOver(daily_training_summary, ks, LAMBDA d : d.zone2_min)
                /\ row.hi_min = SumOver(daily_training_summary, ks, LAMBDA d : d.hi_min)
                /\ row.weekly_trimp = SumOver(daily_training_summary, ks, LAMBDA d : d.trimp)
                /\ row.training_days = Cardinality(ks)

\* C22: every week for which calculate_weekly_summary wrote in the last
\* operation starts on a Monday, and its one stored weekly row holds the sums
\* (duration, zone 2 and high-intensity minutes, load, training days) over the
\* daily summaries dated from that Monday to the following Sunday, whatever
\* the weekly row held before.
C22_WeeklyIsFold ==
    \A p \in plast.weeks :
        /\ Weekday(p[2]) = 0
        /\ WeeklyIsFold(p[1], p[2])

\* C22 witness: a weekly row was stored before with other totals, the week has
\* daily summaries and the week before has one too, and the operation wrote
\* the week's row anew.
C22_Witness ==
    \E p \in plast.weeks :
        /\ WeeklyIsFold(p[1], p[2])
        /\ \E old \in WeeklyRows(plast.before.weekly, p[1], p[2]) :
           \E new \in WeeklyRows(weekly_training_summary, p[1], p[2]) :
                old.total_duration_min # new.total_duration_min
        /\ SummaryRows(daily_training_summary, p[1], p[2] - 1) # {}

\* the daily summaries the last operation added or changed, as <<user_id, date>>
SummariesChanged ==
    {p \in plast.summarised :
        SummaryRows(daily_training_summary, p[1], p[2])
            # SummaryRows(plast.before.summaries, p[1], p[2])}

\* C30 (as stated): after an exercise pass or a recompute that completed with
\* no computation raising, every week that holds a daily summary the operation
\* added or changed has its weekly row equal to the fold of the week's daily
\* summaries.
C30_Original ==
    (plast.op \in {"sync", "api_sync", "recalculate", "metrics"}
        /\ plast.status = "ok" /\ ~plast.raised) =>
        \A p \in SummariesChanged : WeeklyIsFold(p[1], GetWeekStart(p[2]))

\* the days of the last days days up to t on which the user has a stored
\* segment with a duration from lo to hi seconds
NightsWithin(tbl, user_id, t, days, lo, hi) ==
    {tbl[k].day : k \in {j \in 1..Len(tbl) :
        /\ tbl[j].user_id = user_id
        /\ tbl[j].day > t - days
        /\ tbl[j].day <= t
        /\ tbl[j].total_sleep_duration # None
        /\ tbl[j].total_sleep_duration >= lo
        /\ tbl[j].total_sleep_duration <= hi}}

\* the nights of 3 to 12 hours in the 90 days up to today
QualifyingNights(user_id) ==
    NightsWithin(oura_sleep, user_id, today, 90, 3 * 3600, 12 * 3600)

\* the nights with a duration in the 14 days up to today
RecentNightsOf(user_id) ==
    NightsWithin(oura_sleep, user_id, today, 14, 0, 24 * 3600)

\* C23 (as stated): with exactly 29 qualifying nights in the 90 days there is
\* no baseline (calculate_sleep_debt returns None), with exactly 30 there is
\* one.
C23_Original ==
    debt.asked =>
        /\ Cardinality(QualifyingNights(debt.user_id)) = 29 => ~debt.returned
        /\ Cardinality(QualifyingNights(debt.user_id)) = 30 =>
                debt.returned /\ debt.baseline_sleep_minutes # None

\* C24 (as stated): with a baseline, exactly 4 nights in the 14 days give the
\* answer "insufficient" with no debt figure (not a debt of zero), and exactly
\* 5 nights give a debt figure.
C24_Original ==
    (debt.asked /\ debt.returned) =>
        /\ Cardinality(RecentNightsOf(debt.user_id)) = 4 =>
                debt.sleep_debt_minutes = None /\ debt.data_quality = "insufficient"
        /\ Cardinality(RecentNightsOf(debt.user_id)) = 5 =>
                debt.sleep_debt_minutes # None /\ debt.data_quality # "insufficient"

\* C26 (as stated): the estimate weighs at most 14 records; the weights, in
\* 26ths, go from 26 (1.0) for the first down by one per record, to 13 (0.5)
\* for the 14th, and none is under 13 or over 26.
C26_Original ==
    (debt.asked /\ debt.sleep_debt_minutes # None) =>
        /\ Len(debt.weights) <= 14
        /\ \A i \in 1..Len(debt.weights) :
                /\ debt.weights[i] = 26 - (i - 1)
                /\ debt.weights[i] >= 13
                /\ debt.weights[i] <= 26

\* C27 (as stated): when generate_ai_recommendations_job has started, the Polar
\* sync, the metrics calculation and the Oura sync of the day were all done
\* for every user at the moment it started.
C27_Original ==
    sched.jobs["generate"].state # "waiting" => sched.unfinished = {}

====
